---- MODULE Spec2Model ----
(***************************************************************************)
(* A model of the MySQL operator's InnoDB cluster core: the ClusterMutex,  *)
(* the ClusterController event sinks (on_pod_created, on_pod_restarted,    *)
(* on_pod_deleted, on_group_view_change) and the operations they drive.    *)
(*                                                                         *)
(* The framework runs the handlers of one pod one after the other, so a    *)
(* pod is a process: Invoke is ClusterMutex.__enter__, Body is the with    *)
(* block, the whole sink with its admin calls, and __exit__.  The database *)
(* group is ground truth `gr`; what the admin client answers follows from  *)
(* it, or is a failure.  An operation is a function from a world to the     *)
(* set of the results it can have.                                         *)
(***************************************************************************)
EXTENDS Integers, Sequences, FiniteSets, TLC

\* ------------------------------------------------------------- bounds
NumPods == 2
MaxTries == 2

\* ---------------------------------------------------- program constants
MutexBusyDelay == 10
ConnectClusterDelay == 15
NotReadyDelay == 15
StopGrFailedDelay == 3
RepairAttemptedDelay == 3
ReadOnlyDelay == 5

Pods == 0 .. (NumPods - 1)
None == "None"
\* No pod: a diagnosis without a primary, a connect that found no peer.
NoPod == 0 - 1

\* diagnose.DIAG_CLUSTER_* as used by the controller
ClusterDiags ==
  {"INITIALIZING", "ONLINE", "ONLINE_PARTIAL", "ONLINE_UNCERTAIN", "OFFLINE",
   "OFFLINE_UNCERTAIN", "NO_QUORUM", "NO_QUORUM_UNCERTAIN", "SPLIT_BRAIN",
   "SPLIT_BRAIN_UNCERTAIN", "UNKNOWN", "INVALID", "FINALIZING"}

\* diagnose.DIAG_CANDIDATE_*
CandidateDiags == {"JOINABLE", "REJOINABLE", "MEMBER", "UNREACHABLE", "BROKEN"}

SinkKinds == {"on_pod_created", "on_pod_restarted", "on_pod_deleted"}

\* The calls that change the group (the admin-mutating calls).
AdminMutatingCalls ==
  {"create_cluster", "add_instance", "rejoin_instance", "remove_instance",
   "reboot_cluster_from_complete_outage", "force_quorum_using_partition_of"}

\* ----------------------------------------------------------- outcomes
\* How a call ends: normal return, kopf.TemporaryError(delay),
\* kopf.PermanentError, or another exception (mysqlsh.Error, AssertionError).
\* Temp(0) is a TemporaryError raised without a delay.
Ok == [kind |-> "ok", delay |-> 0, retriable |-> FALSE]
Temp(d) == [kind |-> "temp", delay |-> d, retriable |-> FALSE]
Perm == [kind |-> "perm", delay |-> 0, retriable |-> FALSE]
AdminError(r) == [kind |-> "admin_error", delay |-> 0, retriable |-> r]
AssertionError == [kind |-> "assertion", delay |-> 0, retriable |-> FALSE]
NoOutcome == [kind |-> "none", delay |-> 0, retriable |-> FALSE]

\* The errors of an admin-client call: transport errors, which a retry loop
\* retries, and the others.
AdminErrors == {AdminError(TRUE), AdminError(FALSE)}

VARIABLES
  mutex,      \* g_ephemeral_pod_state[cluster, "cluster-mutex"]: owner or None
  pc,         \* per pod: its handler is "idle" or inside the with block, "locked"
  sink,       \* per pod: the sink its handler runs
  numPods,    \* pods 0 .. numPods-1 exist (the stateful set creates them in order)
  podDeleting,\* pod.deleting
  fin,        \* the pod carries the member finalizer
  info,       \* pod.get_membership_info(): None or the recorded tuple
  ready,      \* the pod's "ready" readiness gate
  completed,  \* history: create_cluster or join_instance completed for the pod
              \* and its finalizer was not removed since
  gr,         \* ground truth: the pod's place in the group
  cluster,    \* the cluster object: deleting, createTime, status, initDB, ...
  trace,      \* history: the sink that ran in the last step, if one did
  refusal,    \* history: the acquire refused in the last step, if one was
  notice,     \* history: the view change handled in the last step, if one was
  now,        \* time.time(), in seconds
  probeTime,  \* cluster status "lastProbeTime": NoTime or a time
  transitionTime, \* per pod: membership info "lastTransitionTime", NoTime or a time
  refresh,    \* history: the probe_status_if_needed of the last step, if one was
  clusters,   \* GroupMonitor.clusters: the list of MonitoredCluster records
  sessions,   \* the X sessions that are open, each with the record that opened it
  thread,     \* GroupMonitor.run: where the loop stands, or "dead" after a raise
  polled,     \* the `sessions` list run() built in this iteration
  stopped,    \* GroupMonitor.stopped
  monitored   \* history: what the last step of the monitor did

\* What the sinks of the controller do not touch
probeVars == <<probeTime, transitionTime, refresh>>
monitorVars == <<clusters, sessions, thread, polled, stopped, monitored>>

vars == <<mutex, pc, sink, numPods, podDeleting, fin, info, ready, completed,
          gr, cluster, trace, refusal, notice, now, probeVars, monitorVars>>

\* Ground truth of a pod: no metadata and GR stopped; GR running without
\* metadata (an incomplete create); an ONLINE member; a member with GR stopped.
GrStates == {"NONE", "GR_ONLY", "ONLINE", "OFFLINE"}

InitDBKinds == {"none", "clone", "dump"}

\* server_uuid, endpoint and name of pod p
Uuid(p) == <<"uuid", p>>
Endpoint(p) == <<"endpoint", p>>
PodName(p) == <<"pod", p>>

\* An empty mutex slot
NoOwner == <<>>

\* pod.get_membership_info() of a pod nothing was recorded for
NoInfo ==
  [set |-> FALSE, member_id |-> <<>>, role |-> None, status |-> None,
   view_id |-> <<>>, version |-> None]

\* ------------------------------------------------------------ the world
\* The state the controller's operations read and write, as one record.
\* ev is the trace of the sink body running; cand and reconciled record the
\* candidate diagnosis reconcile_pod acted on.
World ==
  [numPods |-> numPods, podDeleting |-> podDeleting, fin |-> fin, info |-> info,
   ready |-> ready, completed |-> completed, gr |-> gr, cluster |-> cluster,
   ev |-> <<>>, cand |-> None, reconciled |-> FALSE]

AllPods(w) == 0 .. (w.numPods - 1)

\* One entry of the trace of a sink body: an admin call, a finalizer change,
\* a status write, with the pod it is about and how it ended ("ok", an error
\* code) or, for a finalizer change, the operation that made it.
Emit(w, op, pod, res, opt) ==
  [w EXCEPT !.ev = Append(@, [op |-> op, pod |-> pod, res |-> res, opt |-> opt])]

Return(w, res) == [w |-> w, res |-> res]

\* Every result of S that returned goes on with F; a raise goes up.
Then(S, F(_)) == UNION {IF r.res.kind = "ok" THEN F(r.w) ELSE {r} : r \in S}

\* An admin-client call fails in world w
Fails(w) == {Return(w, e) : e \in AdminErrors}

InMetadata(g) == g \in {"ONLINE", "OFFLINE"}

\* The PRIMARY of the group: the ONLINE member of lowest index.
Primary(g) ==
  IF \E p \in Pods : g[p] = "ONLINE"
  THEN CHOOSE p \in Pods : g[p] = "ONLINE" /\ \A o \in Pods : g[o] = "ONLINE" => p <= o
  ELSE NoPod

OnlineMembers(w) == {p \in AllPods(w) : w.gr[p] = "ONLINE"}

\* The id of the group's view: it changes when the set of ONLINE members does.
ViewId(g) == <<"view", {p \in Pods : g[p] = "ONLINE"}>>

\* shellutils.query_membership_info(session) on pod p
query_membership_info(w, p) ==
  [member_id |-> Uuid(p),
   role |-> IF Primary(w.gr) = p THEN "PRIMARY" ELSE "SECONDARY",
   status |-> IF w.gr[p] = "ONLINE" THEN "ONLINE" ELSE "OFFLINE",
   view_id |-> ViewId(w.gr),
   version |-> "8.0"]

\* MySQLPod.add_member_finalizer / remove_member_finalizer. The entry of a
\* removal tells whether the pod had completed create_cluster or join_instance.
add_member_finalizer(w, p, by) ==
  Emit([w EXCEPT !.fin[p] = TRUE], "add_member_finalizer", p, "ok", by)

remove_member_finalizer(w, p, by) ==
  Emit([w EXCEPT !.fin[p] = FALSE, !.completed[p] = FALSE],
       "remove_member_finalizer", p, IF w.completed[p] THEN "completed" ELSE "ok", by)

\* MySQLPod.update_membership_status(member_id, role, status, view_id, version)
update_membership_status(w, p, t) ==
  Emit([w EXCEPT !.info[p] = [set |-> TRUE, member_id |-> t.member_id, role |-> t.role,
                              status |-> t.status, view_id |-> t.view_id,
                              version |-> t.version]],
       "update_membership_status", p, "ok", t.status)

\* MySQLPod.update_member_readiness_gate("ready", value)
update_member_readiness_gate(w, p, value) ==
  Emit([w EXCEPT !.ready[p] = value], "update_member_readiness_gate", p,
       "ok", IF value THEN "True" ELSE "False")

\* ClusterController.publish_status
publish_status(w, diag) ==
  Emit([w EXCEPT !.cluster.status = diag.status,
                 !.cluster.onlineInstances = diag.online],
       "publish_status", 0, "ok", diag.status)

\* ClusterController.probe_status: diagnose, then publish
probe_status(w, diag) == publish_status(w, diag)

\* ClusterController.probe_member_status
probe_member_status(w, p) ==
  LET t == query_membership_info(w, p)
      w1 == update_membership_status(w, p, t)
  IN IF t.status = "ONLINE"
     THEN update_member_readiness_gate(w1, p, TRUE)
     ELSE update_member_readiness_gate(w1, p, FALSE)

\* ------------------------------------------------------- the retry loop
\* shellutils.RetryLoop(logger).call(f, ...): a retriable admin-client error
\* is retried, at most MaxTries attempts, and then surfaced as retry-later;
\* every other result of f is passed on.
Retry(r) == r.res.kind = "admin_error" /\ r.res.retriable

GiveUp(r) == IF Retry(r) THEN Return(r.w, Temp(0)) ELSE r

RetryLoop(F(_), w) ==
  LET att[i \in 1 .. MaxTries] ==
        IF i = 1 THEN F(w)
        ELSE {r \in att[i - 1] : ~Retry(r)}
             \cup UNION {F(r.w) : r \in {x \in att[i - 1] : Retry(x)}}
  IN {GiveUp(r) : r \in att[MaxTries]}

\* ------------------------------------------------- connecting to a peer
\* try_connect of connect_to_cluster from pod i on: the peers it can return
\* and the signals it can raise. A pod whose session cannot be opened sets
\* last_exc; a member with GR stopped answers NOT_ONLINE and is counted; any
\* other pod fails get_cluster with another error.
RECURSIVE try_connect(_, _, _, _)
try_connect(w, i, offline, last_exc) ==
  IF i >= w.numPods
  THEN IF offline = w.numPods THEN {[peer |-> NoPod, res |-> Temp(ConnectClusterDelay)]}
       ELSE IF last_exc # NoOutcome THEN {[peer |-> NoPod, res |-> last_exc]}
       ELSE {[peer |-> NoPod, res |-> Temp(ConnectClusterDelay)]}
  ELSE IF w.podDeleting[i] THEN try_connect(w, i + 1, offline, last_exc)
  ELSE UNION {try_connect(w, i + 1, offline, e) : e \in AdminErrors}
       \cup (IF w.gr[i] = "ONLINE"
             THEN {[peer |-> i, res |-> Ok]} \cup try_connect(w, i + 1, offline, last_exc)
             ELSE IF w.gr[i] = "OFFLINE"
             THEN try_connect(w, i + 1, offline + 1, last_exc)
             ELSE try_connect(w, i + 1, offline, last_exc))

\* ClusterController.connect_to_cluster
connect_to_cluster(w) == try_connect(w, 0, 0, NoOutcome)

\* ClusterController.connect_to_primary: the primary pod when the diagnosis
\* names one, any reachable member otherwise.
connect_to_primary(w, primary_pod) ==
  IF primary_pod # NoPod
  THEN {[peer |-> NoPod, res |-> e] : e \in AdminErrors}
       \cup (IF w.gr[primary_pod] = "ONLINE"
             THEN {[peer |-> primary_pod, res |-> Ok]} ELSE {})
  ELSE connect_to_cluster(w)

\* ------------------------------------------------------ create_cluster
\* cluster.spec.get("routers"): not declared, or the count that is declared
Routers == {"None", "0", "2"}

\* `if n:` of line 283
Truthy(n) == n \notin {"None", "0"}

\* post_create_actions left by an error of the admin client
PostCreateFails(w, seed_pod) == Fails(Emit(w, "post_create_actions", seed_pod, "error", ""))

\* The router deployment: lines 281-285. The entry of the return carries the
\* count the spec declares.
RouterSized(w, seed_pod, n) ==
  IF Truthy(n)
  THEN {Return(Emit(Emit(w, "update_size", seed_pod, "ok", n),
                    "post_create_actions", seed_pod, "ok", n), Ok)}
       \cup PostCreateFails(Emit(w, "update_size", seed_pod, "error", n), seed_pod)
  ELSE {Return(Emit(w, "post_create_actions", seed_pod, "ok", n), Ok)}

\* The backup account and what follows: lines 276-285
BackupAccount(w, seed_pod) ==
  PostCreateFails(Emit(w, "setup_backup_account", seed_pod, "error", ""), seed_pod)
  \cup UNION {RouterSized(Emit(w, "setup_backup_account", seed_pod, "ok", ""), seed_pod, n) :
                n \in Routers}

\* The router account and what follows: lines 273-285
RouterAccount(w, seed_pod, update) ==
  PostCreateFails(Emit(w, "setup_router_account", seed_pod, "error", update), seed_pod)
  \cup BackupAccount(Emit(w, "setup_router_account", seed_pod, "ok", update), seed_pod)

\* ClusterController.post_create_actions: `show grants` tells whether the
\* router account is there (update) or not (ER_NONEXISTING_GRANT), any other
\* error of the query is raised; then the router account, the backup account
\* and the router deployment size.
post_create_actions(w, seed_pod) ==
  PostCreateFails(w, seed_pod)
  \cup UNION {RouterAccount(w, seed_pod, update) : update \in {"update=True", "update=False"}}

\* create_cluster from probe_member_status on: lines 254-258
CreateTail(w, seed_pod) ==
  {IF r.res.kind = "ok" THEN Return([r.w EXCEPT !.completed[seed_pod] = TRUE], Ok) ELSE r :
     r \in post_create_actions(probe_member_status(w, seed_pod), seed_pod)}

\* An except branch that raises again with GR left running on the seed
CreateFailed_GrLeftRunning(w, seed_pod, answer) ==
  Fails(remove_member_finalizer(w, seed_pod, "create_cluster"))

\* The except branch of dba.create_cluster: lines 238-252
CreateFailed(w, seed_pod, answer) ==
  LET w1 == remove_member_finalizer(w, seed_pod, "create_cluster")
  IN IF answer = "already_in_gr"
     THEN {Return(Emit(w1, "STOP GROUP_REPLICATION", seed_pod, "error", ""),
                  Temp(StopGrFailedDelay))}
          \cup Fails(Emit([w1 EXCEPT !.gr[seed_pod] = "NONE"],
                          "STOP GROUP_REPLICATION", seed_pod, "ok", ""))
     ELSE Fails(w1)

\* dba.create_cluster on the seed, lines 229-252: GR already running without
\* metadata is SHERR_DBA_BADARG_INSTANCE_ALREADY_IN_GR; a failed create may
\* leave GR running.
CreateIssued(w, seed_pod, gtid) ==
  IF w.gr[seed_pod] = "GR_ONLY"
  THEN CreateFailed(Emit(w, "create_cluster", seed_pod, "already_in_gr", gtid),
                    seed_pod, "already_in_gr")
  ELSE IF w.gr[seed_pod] = "OFFLINE"
  THEN CreateFailed(Emit(w, "create_cluster", seed_pod, "error", gtid), seed_pod, "error")
  ELSE CreateTail(Emit([w EXCEPT !.gr[seed_pod] = "ONLINE"],
                       "create_cluster", seed_pod, "ok", gtid),
                  seed_pod)
       \cup UNION {CreateFailed(Emit([w EXCEPT !.gr[seed_pod] = g],
                                     "create_cluster", seed_pod, "error", gtid),
                                seed_pod, "error") :
                     g \in {"NONE", "GR_ONLY"}}

\* ClusterController.create_cluster
create_cluster(w, seed_pod) ==
  IF w.cluster.initDB \notin {"none", "clone"}
  THEN {Return(w, AssertionError)}
  ELSE
    LET fromScratch == w.cluster.initDB = "none"
        gtid == IF fromScratch THEN "gtidSetIsComplete=True" ELSE "gtidSetIsComplete=False"
        w0 == [w EXCEPT !.cluster.incrementalRecoveryAllowed =
                          IF fromScratch THEN "True" ELSE "False"]
        w1 == add_member_finalizer(w0, seed_pod, "create_cluster")
    IN Fails(w0)
       \cup (IF w1.gr[seed_pod] = "ONLINE"
             THEN CreateTail(w1, seed_pod)
             ELSE CreateIssued(w1, seed_pod, gtid))

\* ------------------------------------------ reboot, force quorum, destroy
\* ClusterController.reboot_cluster: always from pods[0]
reboot_cluster(w) ==
  LET seed_pod == 0
      w1 == add_member_finalizer(w, seed_pod, "reboot_cluster")
  IN Fails(w)
     \cup Fails(Emit(w1, "reboot_cluster_from_complete_outage", seed_pod, "error", ""))
     \cup (IF w1.gr[seed_pod] = "OFFLINE"
           THEN {Return(Emit([w1 EXCEPT !.gr[seed_pod] = "ONLINE"],
                             "reboot_cluster_from_complete_outage", seed_pod, "ok", ""),
                        Ok)}
           ELSE {})

\* A force_quorum over a session to whichever member answers
force_quorum_AnyPeer(w, seed_pod) ==
  UNION {IF c.res.kind # "ok" THEN {Return(w, c.res)}
         ELSE {Return(Emit(w, "force_quorum_using_partition_of", seed_pod, "ok",
                           <<c.peer, Endpoint(seed_pod)>>),
                      Ok)} :
           c \in connect_to_cluster(w)}

\* ClusterController.force_quorum: the session and the partition are the seed's
force_quorum(w, seed_pod) ==
  UNION {IF c.res.kind # "ok" THEN {Return(w, c.res)}
         ELSE {Return(Emit(w, "force_quorum_using_partition_of", seed_pod, "ok",
                           <<c.peer, Endpoint(seed_pod)>>),
                      Ok)}
              \cup Fails(Emit(w, "force_quorum_using_partition_of", seed_pod, "error",
                              <<c.peer, Endpoint(seed_pod)>>)) :
           c \in connect_to_primary(w, seed_pod)}

\* GR stopped on a pod: a member goes OFFLINE, GR without metadata is gone.
StopGr(g) == IF g = "ONLINE" THEN "OFFLINE" ELSE IF g = "GR_ONLY" THEN "NONE" ELSE g

\* A destroy_cluster that leaves the finalizer when the stop failed
destroy_cluster_KeepsOnError(w, last_pod) ==
  {Emit(w, "STOP group_replication", last_pod, "error", ""),
   remove_member_finalizer(Emit([w EXCEPT !.gr[last_pod] = StopGr(@)],
                                "STOP group_replication", last_pod, "ok", ""),
                           last_pod, "destroy_cluster")}

\* ClusterController.destroy_cluster: best effort, never raises
destroy_cluster(w, last_pod) ==
  {remove_member_finalizer(Emit(w, "STOP group_replication", last_pod, "error", ""),
                           last_pod, "destroy_cluster"),
   remove_member_finalizer(Emit([w EXCEPT !.gr[last_pod] = StopGr(@)],
                                "STOP group_replication", last_pod, "ok", ""),
                           last_pod, "destroy_cluster")}

\* -------------------------------------------------------- reconcile_pod
\* diagnose.diagnose_cluster_candidate: what the pod is to the cluster, or
\* UNREACHABLE, or BROKEN.
CandidateOf(g) ==
  IF g = "ONLINE" THEN "MEMBER"
  ELSE IF g = "OFFLINE" THEN "REJOINABLE"
  ELSE IF g = "NONE" THEN "JOINABLE"
  ELSE "BROKEN"

diagnose_cluster_candidate(w, pod) == {CandidateOf(w.gr[pod]), "UNREACHABLE", "BROKEN"}

\* An incremental_recovery_allowed that answers the opposite of the record
incremental_recovery_allowed_Inverted(w) == w.cluster.incrementalRecoveryAllowed # "True"

\* MySQLCluster.incremental_recovery_allowed()
incremental_recovery_allowed(w) == w.cluster.incrementalRecoveryAllowed = "True"

\* A join_instance that adds the finalizer once add_instance has returned
join_instance_FinalizerAfter(w, pod) ==
  LET recovery_method == IF incremental_recovery_allowed(w) THEN "incremental" ELSE "clone"
      joined == probe_member_status(
                  add_member_finalizer(
                    Emit([w EXCEPT !.gr[pod] = "ONLINE"], "add_instance", pod, "ok",
                         recovery_method),
                    pod, "join_instance"),
                  pod)
  IN UNION {IF c.res.kind # "ok" THEN {Return(w, c.res)}
            ELSE Fails(Emit(w, "add_instance", pod, "error", recovery_method))
                 \cup (IF w.gr[pod] = "NONE"
                       THEN {Return([joined EXCEPT !.completed[pod] = TRUE], Ok)}
                       ELSE {}) :
              c \in connect_to_cluster(w)}

\* ClusterController.join_instance
join_instance(w, pod) ==
  LET recovery_method == IF incremental_recovery_allowed(w) THEN "incremental" ELSE "clone"
      w1 == add_member_finalizer(w, pod, "join_instance")
      joined == probe_member_status(
                  Emit([w1 EXCEPT !.gr[pod] = "ONLINE"], "add_instance", pod, "ok",
                       recovery_method),
                  pod)
  IN UNION {IF c.res.kind # "ok" THEN {Return(w, c.res)}
            ELSE Fails(Emit(w1, "add_instance", pod, "error", recovery_method))
                 \cup (IF w1.gr[pod] = "NONE"
                       THEN {Return([joined EXCEPT !.completed[pod] = TRUE], Ok)}
                       ELSE {}) :
              c \in connect_to_cluster(w)}

\* ClusterController.rejoin_instance
rejoin_instance(w, pod) ==
  UNION {IF c.res.kind # "ok" THEN {Return(w, c.res)}
         ELSE Fails(Emit(w, "rejoin_instance", pod, "error", ""))
              \cup (IF w.gr[pod] = "OFFLINE"
                    THEN {Return(probe_member_status(
                                   Emit([w EXCEPT !.gr[pod] = "ONLINE"],
                                        "rejoin_instance", pod, "ok", ""),
                                   pod),
                                 Ok)}
                    ELSE {}) :
           c \in connect_to_cluster(w)}

\* A dispatch that joins a pod that is a member already
ReconcileDispatch_MemberJoins(w, pod, cand) ==
  IF cand \in {"JOINABLE", "MEMBER"} THEN join_instance(w, pod)
  ELSE IF cand = "REJOINABLE" THEN rejoin_instance(w, pod)
  ELSE {Return(w, Ok)}

\* A dispatch that probes the status of a member again
ReconcileDispatch_MemberProbed(w, pod, cand) ==
  IF cand = "JOINABLE" THEN join_instance(w, pod)
  ELSE IF cand = "REJOINABLE" THEN rejoin_instance(w, pod)
  ELSE IF cand = "MEMBER" THEN {Return(probe_member_status(w, pod), Ok)}
  ELSE {Return(w, Ok)}

\* The dispatch of reconcile_pod on the candidate diagnosis: lines 358-376
ReconcileDispatch(w, pod, cand) ==
  IF cand = "JOINABLE" THEN join_instance(w, pod)
  ELSE IF cand = "REJOINABLE" THEN rejoin_instance(w, pod)
  ELSE IF cand = "MEMBER" THEN {Return(w, Ok)}
  ELSE IF cand = "UNREACHABLE" THEN {Return(w, Ok)}
  ELSE {Return(w, Ok)}

\* reconcile_pod from the candidate diagnosis on: lines 350-376
Reconcile(w, pod, cand) ==
  LET w1 == [Emit(w, "reconcile_pod", pod, "ok", cand)
               EXCEPT !.cand = cand, !.reconciled = TRUE]
  IN IF w.podDeleting[pod] \/ w.cluster.deleting THEN {Return(w1, Ok)}
     ELSE ReconcileDispatch(w1, pod, cand)

\* ClusterController.reconcile_pod
reconcile_pod(w, primary_pod, pod) ==
  Fails(w)
  \cup UNION {IF c.res.kind # "ok" THEN {Return(w, c.res)}
              ELSE UNION {Reconcile(w, pod, cand) :
                            cand \in diagnose_cluster_candidate(w, pod)} :
                c \in connect_to_primary(w, primary_pod)}

\* ------------------------------------------------------ remove_instance
\* An end of remove_instance that leaves the finalizer on the pod
RemoveEnd_KeepsFinalizer(w, pod) == {Return(w, Ok)}

\* The end of remove_instance: lines 491-493
RemoveEnd(w, pod) == {Return(remove_member_finalizer(w, pod, "remove_instance"), Ok)}

Removed(w, pod, answer, opt) ==
  Emit([w EXCEPT !.gr[pod] = IF answer = "ok" THEN "NONE" ELSE @],
       "remove_instance", pod, answer, opt)

\* The forced removal: lines 468-487
RemoveForced(w, pod) ==
  IF ~InMetadata(w.gr[pod])
  THEN RemoveEnd(Removed(w, pod, "metadata_missing", "force"), pod)
  ELSE RemoveEnd(Removed(w, pod, "ok", "force"), pod)
       \cup (LET w1 == Removed(w, pod, "error", "force")
             IN IF w1.cluster.deleting THEN RemoveEnd(w1, pod) ELSE Fails(w1))

\* A removal that takes SHERR_DBA_MEMBER_METADATA_MISSING for a failure
RemoveThroughPeer_MissingFails(w, pod) ==
  IF ~InMetadata(w.gr[pod])
  THEN Fails(Removed(Removed(w, pod, "metadata_missing", "graceful"), pod,
                     "metadata_missing", "force"))
  ELSE RemoveEnd(Removed(w, pod, "ok", "graceful"), pod)
       \cup {Return(Removed(w, pod, "prevents", "graceful"), Temp(ReadOnlyDelay))}
       \cup RemoveForced(Removed(w, pod, "error", "graceful"), pod)

\* A removal that goes on to the forced removal when the primary is read-only
RemoveThroughPeer_ReadOnlyForces(w, pod) ==
  IF ~InMetadata(w.gr[pod])
  THEN RemoveEnd(Removed(w, pod, "metadata_missing", "graceful"), pod)
  ELSE RemoveEnd(Removed(w, pod, "ok", "graceful"), pod)
       \cup RemoveForced(Removed(w, pod, "prevents", "graceful"), pod)
       \cup RemoveForced(Removed(w, pod, "error", "graceful"), pod)

\* The removal through a peer: lines 449-487 (force is False in every call)
RemoveThroughPeer(w, pod) ==
  IF ~InMetadata(w.gr[pod])
  THEN RemoveEnd(Removed(w, pod, "metadata_missing", "graceful"), pod)
  ELSE RemoveEnd(Removed(w, pod, "ok", "graceful"), pod)
       \cup {Return(Removed(w, pod, "prevents", "graceful"), Temp(ReadOnlyDelay))}
       \cup RemoveForced(Removed(w, pod, "error", "graceful"), pod)

\* A remove_instance that skips the removal when two pods are left
remove_instance_SkipsAtTwo(w, pod) ==
  IF w.numPods > 2
  THEN UNION {IF c.res.kind = "admin_error"
              THEN IF w.cluster.deleting THEN RemoveEnd(w, pod) ELSE {Return(w, c.res)}
              ELSE IF c.res.kind # "ok" THEN {Return(w, c.res)}
              ELSE RemoveThroughPeer(w, pod) :
                c \in connect_to_cluster(w)}
  ELSE RemoveEnd(w, pod)

\* ClusterController.remove_instance
remove_instance(w, pod) ==
  IF w.numPods > 1
  THEN UNION {IF c.res.kind = "admin_error"
              THEN IF w.cluster.deleting THEN RemoveEnd(w, pod) ELSE {Return(w, c.res)}
              ELSE IF c.res.kind # "ok" THEN {Return(w, c.res)}
              ELSE RemoveThroughPeer(w, pod) :
                c \in connect_to_cluster(w)}
  ELSE RemoveEnd(w, pod)

\* ------------------------------------------------------- repair_cluster
\* A repair_cluster that forces a quorum on a split brain
repair_cluster_SplitBrainForces(w, pod, diag) ==
  IF diag.status \in {"SPLIT_BRAIN", "NO_QUORUM"}
  THEN RetryLoop(LAMBDA ww : force_quorum(ww, diag.candidate), w)
  ELSE IF diag.status \in {"ONLINE", "ONLINE_PARTIAL", "ONLINE_UNCERTAIN", "FINALIZING"}
  THEN {Return(w, Ok)}
  ELSE IF diag.status = "OFFLINE"
  THEN IF pod = 0 THEN RetryLoop(LAMBDA ww : reboot_cluster(ww), w) ELSE {Return(w, Ok)}
  ELSE IF diag.status \in {"OFFLINE_UNCERTAIN", "NO_QUORUM_UNCERTAIN", "UNKNOWN"}
  THEN {Return(w, Temp(0))}
  ELSE {Return(w, Perm)}

\* A repair_cluster that reboots the cluster on the event of any pod
repair_cluster_AnyPodReboots(w, pod, diag) ==
  IF diag.status = "OFFLINE" THEN RetryLoop(LAMBDA ww : reboot_cluster(ww), w)
  ELSE IF diag.status \in {"ONLINE", "ONLINE_PARTIAL", "ONLINE_UNCERTAIN", "FINALIZING"}
  THEN {Return(w, Ok)}
  ELSE IF diag.status = "NO_QUORUM"
  THEN RetryLoop(LAMBDA ww : force_quorum(ww, diag.candidate), w)
  ELSE IF diag.status \in {"OFFLINE_UNCERTAIN", "NO_QUORUM_UNCERTAIN", "UNKNOWN"}
  THEN {Return(w, Temp(0))}
  ELSE {Return(w, Perm)}

\* ClusterController.repair_cluster: the set of its possible results
repair_cluster(w, pod, diag) ==
  IF diag.status \in {"ONLINE", "ONLINE_PARTIAL", "ONLINE_UNCERTAIN"} THEN {Return(w, Ok)}
  ELSE IF diag.status = "OFFLINE"
  THEN IF pod = 0
       THEN RetryLoop(LAMBDA ww : reboot_cluster(ww), w)
       ELSE {Return(w, Ok)}
  ELSE IF diag.status = "OFFLINE_UNCERTAIN" THEN {Return(w, Temp(0))}
  ELSE IF diag.status = "NO_QUORUM"
  THEN RetryLoop(LAMBDA ww : force_quorum(ww, diag.candidate), w)
  ELSE IF diag.status = "NO_QUORUM_UNCERTAIN" THEN {Return(w, Temp(0))}
  ELSE IF diag.status = "SPLIT_BRAIN" THEN {Return(w, Perm)}
  ELSE IF diag.status = "SPLIT_BRAIN_UNCERTAIN" THEN {Return(w, Perm)}
  ELSE IF diag.status = "UNKNOWN" THEN {Return(w, Temp(0))}
  ELSE IF diag.status = "INVALID" THEN {Return(w, Perm)}
  ELSE IF diag.status = "FINALIZING" THEN {Return(w, Ok)}
  ELSE {Return(w, Perm)}

\* ------------------------------------------------- the diagnostic engine
\* diagnose.diagnose_cluster: the diagnoses the engine can give of world w.
\* status, the PRIMARY it found, the number of ONLINE members it saw and its
\* first quorum candidate. Which pods it reaches and how the members are
\* partitioned is the environment's choice.
Diagnosis(status, primary, online, candidate) ==
  [status |-> status, primary |-> primary, online |-> online, candidate |-> candidate]

diagnose_cluster(w) ==
  LET online == OnlineMembers(w)
      members == {p \in AllPods(w) : InMetadata(w.gr[p])}
      n == Cardinality(online)
      D(S) == {Diagnosis(s, Primary(w.gr), n, NoPod) : s \in S}
  IN IF w.cluster.deleting THEN D({"FINALIZING"})
     ELSE {Diagnosis("UNKNOWN", NoPod, 0, NoPod)}
          \cup (IF members = {}
                THEN D({"INITIALIZING"}
                       \cup (IF w.cluster.createTime THEN {"INVALID"} ELSE {}))
                ELSE IF online = {} THEN D({"OFFLINE", "OFFLINE_UNCERTAIN"})
                ELSE IF online # AllPods(w) THEN D({"ONLINE_PARTIAL", "ONLINE_UNCERTAIN"})
                ELSE D({"ONLINE"})
                     \cup (IF n > 1
                           THEN {Diagnosis(s, NoPod, n, c) :
                                   s \in {"NO_QUORUM", "NO_QUORUM_UNCERTAIN",
                                          "SPLIT_BRAIN", "SPLIT_BRAIN_UNCERTAIN"},
                                   c \in online}
                           ELSE {}))

\* ------------------------------------------------------------ the sinks
OnlineFamily == {"ONLINE", "ONLINE_PARTIAL", "ONLINE_UNCERTAIN"}

\* MySQLCluster.set_create_time
set_create_time(w) ==
  Emit([w EXCEPT !.cluster.createTime = TRUE], "set_create_time", 0, "ok", "")

\* RetryLoop(logger).call(self.reconcile_pod, diag.primary, pod, logger)
ReconcileLoop(w, pod, diag) ==
  RetryLoop(LAMBDA ww : reconcile_pod(ww, diag.primary, pod), w)

\* An on_pod_created that creates the cluster at whichever pod comes first
on_pod_created_AnyPodCreates(w0, pod, diag) ==
  LET w == probe_status(w0, diag)
  IN IF diag.status = "INITIALIZING"
     THEN IF w.cluster.createTime THEN {Return(w, Perm)}
          ELSE {IF r.res.kind = "ok" THEN Return(set_create_time(r.w), Ok) ELSE r :
                  r \in RetryLoop(LAMBDA ww : create_cluster(ww, pod), w)}
     ELSE IF diag.status \in OnlineFamily THEN ReconcileLoop(w, pod, diag)
     ELSE {IF r.res.kind = "ok" THEN Return(r.w, Temp(RepairAttemptedDelay)) ELSE r :
             r \in repair_cluster(w, pod, diag)}

\* An on_pod_created that returns once the repair has returned
on_pod_created_ReturnsAfterRepair(w0, pod, diag) ==
  LET w == probe_status(w0, diag)
  IN IF diag.status = "INITIALIZING"
     THEN IF pod = 0
          THEN IF w.cluster.createTime THEN {Return(w, Perm)}
               ELSE {IF r.res.kind = "ok" THEN Return(set_create_time(r.w), Ok) ELSE r :
                       r \in RetryLoop(LAMBDA ww : create_cluster(ww, pod), w)}
          ELSE {Return(w, Temp(NotReadyDelay))}
     ELSE IF diag.status \in OnlineFamily THEN ReconcileLoop(w, pod, diag)
     ELSE repair_cluster(w, pod, diag)

\* An on_pod_created that does not look at the create time
on_pod_created_CreatesAgain(w0, pod, diag) ==
  LET w == probe_status(w0, diag)
  IN IF diag.status = "INITIALIZING"
     THEN IF pod = 0
          THEN {IF r.res.kind = "ok" THEN Return(set_create_time(r.w), Ok) ELSE r :
                  r \in RetryLoop(LAMBDA ww : create_cluster(ww, pod), w)}
          ELSE {Return(w, Temp(NotReadyDelay))}
     ELSE IF diag.status \in OnlineFamily THEN ReconcileLoop(w, pod, diag)
     ELSE {IF r.res.kind = "ok" THEN Return(r.w, Temp(RepairAttemptedDelay)) ELSE r :
             r \in repair_cluster(w, pod, diag)}

\* ClusterController.on_pod_created: the set of its possible results
on_pod_created(w0, pod, diag) ==
  LET w == probe_status(w0, diag)
  IN IF diag.status = "INITIALIZING"
     THEN IF pod = 0
          THEN IF w.cluster.createTime THEN {Return(w, Perm)}
               ELSE {IF r.res.kind = "ok" THEN Return(set_create_time(r.w), Ok) ELSE r :
                       r \in RetryLoop(LAMBDA ww : create_cluster(ww, pod), w)}
          ELSE {Return(w, Temp(NotReadyDelay))}
     ELSE IF diag.status \in OnlineFamily THEN ReconcileLoop(w, pod, diag)
     ELSE {IF r.res.kind = "ok" THEN Return(r.w, Temp(RepairAttemptedDelay)) ELSE r :
             r \in repair_cluster(w, pod, diag)}

\* An on_pod_restarted that reconciles the pod without repairing the cluster
on_pod_restarted_SkipsRepair(w0, pod, diag) ==
  ReconcileLoop(probe_status(w0, diag), pod, diag)

\* ClusterController.on_pod_restarted
on_pod_restarted(w0, pod, diag) ==
  LET w == probe_status(w0, diag)
      repaired == IF diag.status \notin {"ONLINE", "ONLINE_PARTIAL"}
                  THEN repair_cluster(w, pod, diag)
                  ELSE {Return(w, Ok)}
  IN Then(repaired, LAMBDA ww : ReconcileLoop(ww, pod, diag))

\* An on_pod_deleted tail that takes the repair's return for a repair attempted
DeletedTail_RepairTruthy(w, pod, diag) ==
  IF w.podDeleting[pod] \/ diag.status \in OnlineFamily \cup {"FINALIZING"}
  THEN UNION {IF r.res.kind # "ok" THEN {r}
              ELSE {Return(probe_status(r.w, diag2), Ok) : diag2 \in diagnose_cluster(r.w)} :
                r \in RetryLoop(LAMBDA ww : remove_instance(ww, pod), w)}
  ELSE {IF r.res.kind = "ok" THEN Return(r.w, Temp(RepairAttemptedDelay)) ELSE r :
          r \in repair_cluster(w, pod, diag)}

\* on_pod_deleted after the destroy path: lines 613-621. repair_cluster
\* returns no value, so the retry-later of line 618 is never raised.
DeletedTail(w, pod, diag) ==
  LET acted ==
        IF w.podDeleting[pod] \/ diag.status \in OnlineFamily \cup {"FINALIZING"}
        THEN RetryLoop(LAMBDA ww : remove_instance(ww, pod), w)
        ELSE repair_cluster(w, pod, diag)
  IN Then(acted, LAMBDA ww : {Return(probe_status(ww, diag2), Ok) :
                                diag2 \in diagnose_cluster(ww)})

\* The destroy path of on_pod_deleted: lines 606-611
DestroyPath(w, pod) ==
  {Return(remove_member_finalizer(d, pod, "on_pod_deleted"), Ok) :
     d \in destroy_cluster(w, pod)}

\* ClusterController.on_pod_deleted
on_pod_deleted(w0, pod, diag) ==
  LET w == probe_status(w0, diag)
  IN IF w.cluster.deleting /\ pod = 0
     THEN DestroyPath(w, pod)
     ELSE DeletedTail(w, pod, diag)

\* ----------------------------------------------------- the cluster mutex
\* utils.g_ephemeral_pod_state.testset(cluster, "cluster-mutex", value):
\* sets the slot if it is empty; answers what it held.
testset(slot, value) ==
  [slot |-> IF slot = NoOwner THEN value ELSE slot, old |-> slot]

\* A __enter__ that takes the slot whoever holds it
ClusterMutexEnter_Overwrites(slot, pod) ==
  [slot |-> PodName(pod), res |-> Ok, owner |-> NoOwner]

\* A __enter__ that clears the slot as it refuses
ClusterMutexEnter_ClearsSlot(slot, pod) ==
  LET t == testset(slot, PodName(pod))
  IN IF t.old # NoOwner
     THEN [slot |-> NoOwner, res |-> Temp(MutexBusyDelay), owner |-> t.old]
     ELSE [slot |-> t.slot, res |-> Ok, owner |-> NoOwner]

\* ClusterMutex.__enter__
ClusterMutexEnter(slot, pod) ==
  LET t == testset(slot, PodName(pod))
  IN IF t.old # NoOwner
     THEN [slot |-> t.slot, res |-> Temp(MutexBusyDelay), owner |-> t.old]
     ELSE [slot |-> t.slot, res |-> Ok, owner |-> NoOwner]

\* A __exit__ that runs on a normal return only
ClusterMutexExit_OnReturnOnly(slot, res) == IF res.kind = "ok" THEN NoOwner ELSE slot

\* ClusterMutex.__exit__, on every way out of the with block
ClusterMutexExit(slot, res) == NoOwner

\* ----------------------------------------------- on_group_view_change
\* The tuple shellutils.query_members gives for pod p, listed with `status`.
MemberTuple(g, p, status) ==
  [member_id |-> Uuid(p),
   role |-> IF Primary(g) = p THEN "PRIMARY" ELSE "SECONDARY",
   status |-> status, view_id |-> ViewId(g), endpoint |-> Endpoint(p),
   version |-> "8.0"]

\* The sequences without repetition of the elements of S
RECURSIVE Orders(_)
Orders(S) ==
  IF S = {} THEN {<<>>}
  ELSE UNION {{<<x>> \o t : t \in Orders(S \ {x})} : x \in S}

\* The member lists a session may report: every ONLINE member, and any of the
\* members whose GR is stopped, those as UNREACHABLE, in any order.
MemberLists(g) ==
  LET online == {p \in Pods : g[p] = "ONLINE"}
      offline == {p \in Pods : g[p] = "OFFLINE"}
      statusOf(p) == IF g[p] = "ONLINE" THEN "ONLINE" ELSE "UNREACHABLE"
  IN UNION {{[i \in 1 .. Len(o) |-> MemberTuple(g, o[i], statusOf(o[i]))] :
               o \in Orders(online \cup listed)} :
            listed \in SUBSET offline}

\* The inner loop of on_group_view_change, lines 639-651: the first member
\* that has the pod's recorded member id, or its endpoint, is recorded.
RECURSIVE MatchMember(_, _, _, _)
MatchMember(w, members, p, i) ==
  IF i > Len(members) THEN w
  ELSE
    LET m == members[i]
        pod_member_id == IF w.info[p].set THEN w.info[p].member_id ELSE <<>>
    IN IF (pod_member_id # <<>> /\ m.member_id = pod_member_id)
          \/ m.endpoint = Endpoint(p)
       THEN LET w1 == update_membership_status(w, p, m)
            IN IF m.status = "ONLINE"
               THEN update_member_readiness_gate(w1, p, TRUE)
               ELSE update_member_readiness_gate(w1, p, FALSE)
       ELSE MatchMember(w, members, p, i + 1)

\* The outer loop over self.cluster.get_pods(), line 632
RECURSIVE ViewChangePods(_, _, _)
ViewChangePods(w, members, p) ==
  IF p >= w.numPods THEN w
  ELSE ViewChangePods(MatchMember(w, members, p, 1), members, p + 1)

\* An on_group_view_change that publishes a cluster status as well
on_group_view_change_Publishes(w, members) ==
  publish_status(ViewChangePods(w, members, 0),
                 Diagnosis("ONLINE", NoPod, Len(members), NoPod))

\* ClusterController.on_group_view_change
on_group_view_change(w, members) == ViewChangePods(w, members, 0)

\* -------------------------------------------------------------- actions
NoSink == None
NoTrace ==
  [ran |-> FALSE, kind |-> None, pod |-> 0, holder |-> NoOwner, diag |-> None,
   res |-> NoOutcome, ev |-> <<>>, cand |-> None, reconciled |-> FALSE]
NoRefusal == [refused |-> FALSE, pod |-> 0, res |-> NoOutcome, owner |-> NoOwner,
              before |-> NoOwner]
NoNotice == [handled |-> FALSE, members |-> <<>>, ev |-> <<>>]

\* A time that was never written: None, or the 0 of a new MonitoredCluster;
\* both are false in a condition
NoTime == 0

\* No probe_status_if_needed ran in the last step
NoRefresh ==
  [called |-> FALSE, pod |-> 0, probed |-> FALSE, status |-> None,
   last_status |-> None, probe_time |-> NoTime, transition_time |-> NoTime]

\* No step of the monitor was the last step
NoMonitored ==
  [op |-> None, name |-> None, handler |-> None, attempted |-> FALSE, prev |-> 0,
   held |-> 0, handled |-> <<>>, erred |-> FALSE, raised |-> FALSE, up |-> {},
   primary |-> FALSE,
   pending |-> <<>>, tail |-> None]

\* A process whose group monitor has no cluster yet; nothing probed if needed
NoMonitor ==
  /\ now = 1
  /\ probeTime = NoTime
  /\ transitionTime = [p \in Pods |-> NoTime]
  /\ refresh = NoRefresh
  /\ clusters = <<>>
  /\ sessions = {}
  /\ thread = [phase |-> "ensure", i |-> 1]
  /\ polled = {}
  /\ stopped = FALSE
  /\ monitored = NoMonitored

\* The sinks leave the clock, the probe times and the monitor alone
Kept == UNCHANGED <<now, probeVars, monitorVars>>

FreshCluster(k) ==
  [deleting |-> FALSE, createTime |-> FALSE, status |-> None, onlineInstances |-> 0,
   incrementalRecoveryAllowed |-> None, initDB |-> k]

Init ==
  /\ mutex = NoOwner
  /\ pc = [p \in Pods |-> "idle"]
  /\ sink = [p \in Pods |-> NoSink]
  /\ numPods = 1
  /\ podDeleting = [p \in Pods |-> FALSE]
  /\ fin = [p \in Pods |-> FALSE]
  /\ info = [p \in Pods |-> NoInfo]
  /\ ready = [p \in Pods |-> FALSE]
  /\ completed = [p \in Pods |-> FALSE]
  /\ gr = [p \in Pods |-> "NONE"]
  /\ \E k \in InitDBKinds : cluster = FreshCluster(k)
  /\ trace = NoTrace
  /\ refusal = NoRefusal
  /\ notice = NoNotice
  /\ NoMonitor

\* The world a step leaves behind
Store(w) ==
  /\ podDeleting' = w.podDeleting
  /\ fin' = w.fin
  /\ info' = w.info
  /\ ready' = w.ready
  /\ completed' = w.completed
  /\ gr' = w.gr
  /\ cluster' = w.cluster
  /\ UNCHANGED numPods

\* The framework calls sink `kind` for pod p: `with ClusterMutex(cluster, pod)`.
\* A failed __enter__ raises before the with block is entered, so __exit__
\* does not run and the handler is over.
Invoke(p, kind) ==
  /\ pc[p] = "idle"
  /\ p < numPods
  /\ LET m == ClusterMutexEnter(mutex, p)
     IN /\ mutex' = m.slot
        /\ IF m.res.kind = "ok"
           THEN /\ pc' = [pc EXCEPT ![p] = "locked"]
                /\ sink' = [sink EXCEPT ![p] = kind]
                /\ refusal' = NoRefusal
           ELSE /\ UNCHANGED <<pc, sink>>
                /\ refusal' = [refused |-> TRUE, pod |-> p, res |-> m.res,
                               owner |-> m.owner, before |-> mutex]
  /\ trace' = NoTrace
  /\ notice' = NoNotice
  /\ UNCHANGED <<numPods, podDeleting, fin, info, ready, completed, gr, cluster>>
  /\ Kept

\* The results the sink of pod p can have, for a diagnosis of the cluster
SinkResults(p, diag) ==
  IF sink[p] = "on_pod_created" THEN on_pod_created(World, p, diag)
  ELSE IF sink[p] = "on_pod_restarted" THEN on_pod_restarted(World, p, diag)
  ELSE on_pod_deleted(World, p, diag)

\* The with block: the sink, from its probe to its return or raise, and
\* __exit__ as the block is left.
Body(p) ==
  /\ pc[p] = "locked"
  /\ \E diag \in diagnose_cluster(World) : \E r \in SinkResults(p, diag) :
       /\ Store(r.w)
       /\ mutex' = ClusterMutexExit(mutex, r.res)
       /\ trace' = [ran |-> TRUE, kind |-> sink[p], pod |-> p, holder |-> mutex,
                    diag |-> diag.status, res |-> r.res, ev |-> r.w.ev,
                    cand |-> r.w.cand, reconciled |-> r.w.reconciled]
  /\ pc' = [pc EXCEPT ![p] = "idle"]
  /\ sink' = [sink EXCEPT ![p] = NoSink]
  /\ refusal' = NoRefusal
  /\ notice' = NoNotice
  /\ Kept

\* The group monitor hands a view change to on_group_view_change
GroupViewChange ==
  \E members \in MemberLists(gr) :
    LET w == on_group_view_change(World, members)
    IN /\ Store(w)
       /\ notice' = [handled |-> TRUE, members |-> members, ev |-> w.ev]
       /\ trace' = NoTrace
       /\ refusal' = NoRefusal
       /\ UNCHANGED <<mutex, pc, sink>>
       /\ Kept

\* ------------------------------------------------------ the environment
Env(changed) == /\ notice' = NoNotice
                /\ trace' = NoTrace
                /\ refusal' = NoRefusal
                /\ UNCHANGED <<mutex, pc, sink>>
                /\ Kept
                /\ changed

\* The stateful set creates the next pod
PodScheduled ==
  /\ numPods < NumPods
  /\ numPods' = numPods + 1
  /\ Env(UNCHANGED <<podDeleting, fin, info, ready, completed, gr, cluster>>)

\* A pod is marked for deletion
PodDeleteRequested(p) ==
  /\ p < numPods /\ ~podDeleting[p]
  /\ podDeleting' = [podDeleting EXCEPT ![p] = TRUE]
  /\ Env(UNCHANGED <<numPods, fin, info, ready, completed, gr, cluster>>)

\* The cluster object is marked for deletion
ClusterDeleteRequested ==
  /\ ~cluster.deleting
  /\ cluster' = [cluster EXCEPT !.deleting = TRUE]
  /\ Env(UNCHANGED <<numPods, podDeleting, fin, info, ready, completed, gr>>)

\* A pod marked for deletion and without finalizer goes, and the stateful set
\* creates it again on the same volume: its server starts with GR stopped.
PodReplaced(p) ==
  /\ p < numPods /\ podDeleting[p] /\ ~fin[p] /\ ~cluster.deleting
  /\ pc[p] = "idle"
  /\ podDeleting' = [podDeleting EXCEPT ![p] = FALSE]
  /\ info' = [info EXCEPT ![p] = NoInfo]
  /\ ready' = [ready EXCEPT ![p] = FALSE]
  /\ gr' = [gr EXCEPT ![p] = StopGr(@)]
  /\ Env(UNCHANGED <<numPods, fin, completed, cluster>>)

\* A member's server stops or is expelled
MemberFails(p) ==
  /\ gr[p] = "ONLINE"
  /\ gr' = [gr EXCEPT ![p] = "OFFLINE"]
  /\ Env(UNCHANGED <<numPods, podDeleting, fin, info, ready, completed, cluster>>)

Next ==
  \/ \E p \in Pods, kind \in SinkKinds : Invoke(p, kind)
  \/ \E p \in Pods : Body(p)
  \/ PodScheduled
  \/ \E p \in Pods : PodDeleteRequested(p)
  \/ ClusterDeleteRequested
  \/ \E p \in Pods : PodReplaced(p)
  \/ \E p \in Pods : MemberFails(p)

Spec == Init /\ [][Next]_vars

\* ------------------------------------------- the group monitor's handler
\* What update_membership_status records of member tuple t
Recorded(t) ==
  [set |-> TRUE, member_id |-> t.member_id, role |-> t.role, status |-> t.status,
   view_id |-> t.view_id, version |-> t.version]

\* The places the pods that exist can have in a created group
Groups(n) ==
  {g \in [Pods -> {"NONE", "ONLINE", "OFFLINE"}] : \A p \in Pods : p >= n => g[p] = "NONE"}

\* The states a view change can find: a group, the membership the pods had
\* recorded in an earlier view of the group, the finalizers of the pods that
\* had joined, and a sink inside the mutex or none.
InitView ==
  /\ numPods \in 1 .. NumPods
  /\ gr \in Groups(numPods)
  /\ \E g0 \in Groups(numPods) :
       info = [p \in Pods |->
                 IF g0[p] = "NONE" THEN NoInfo
                 ELSE Recorded(query_membership_info([gr |-> g0], p))]
  /\ ready = [p \in Pods |-> info[p].status = "ONLINE"]
  /\ fin = [p \in Pods |-> info[p].set]
  /\ completed = fin
  /\ podDeleting = [p \in Pods |-> FALSE]
  /\ mutex \in {NoOwner} \cup {PodName(p) : p \in 0 .. (numPods - 1)}
  /\ pc = [p \in Pods |-> IF mutex = PodName(p) THEN "locked" ELSE "idle"]
  /\ sink = [p \in Pods |-> IF mutex = PodName(p) THEN "on_pod_restarted" ELSE NoSink]
  /\ cluster = [FreshCluster("none") EXCEPT !.createTime = TRUE, !.status = "ONLINE",
                   !.onlineInstances = Cardinality({p \in Pods : ready[p]})]
  /\ trace = NoTrace
  /\ refusal = NoRefusal
  /\ notice = NoNotice
  /\ NoMonitor

NextView == GroupViewChange

SpecView == InitView /\ [][NextView]_vars

\* ------------------------------------------------ probe_status_if_needed
\* The clock of the states probe_status_if_needed is applied in
ProbeClock == 3

\* The statuses probe_status_if_needed probes again for
unreachable_states ==
  {"UNKNOWN", "ONLINE_UNCERTAIN", "OFFLINE_UNCERTAIN", "NO_QUORUM_UNCERTAIN",
   "SPLIT_BRAIN_UNCERTAIN"}

\* ClusterController.probe_status_if_needed: the times are read from the
\* cluster status and from the changed pod's membership info; a time that was
\* never written reads as None, which is false in a condition. diag is the
\* diagnosis probe_status gets if it is called.
probe_status_if_needed(w, cluster_probe_time, member_transition_time, diag) ==
  IF \/ /\ cluster_probe_time # NoTime
        /\ member_transition_time # NoTime
        /\ cluster_probe_time < member_transition_time
     \/ w.cluster.status \in unreachable_states
  THEN [probed |-> TRUE, status |-> diag.status, w |-> probe_status(w, diag)]
  ELSE [probed |-> FALSE, status |-> w.cluster.status, w |-> w]

\* A caller asks for the status after a change of pod p
ProbeIfNeeded(p) ==
  /\ p < numPods
  /\ \E diag \in diagnose_cluster(World) :
       LET r == probe_status_if_needed(World, probeTime, transitionTime[p], diag)
       IN /\ Store(r.w)
          /\ probeTime' = IF r.probed THEN now ELSE probeTime
          /\ refresh' = [called |-> TRUE, pod |-> p, probed |-> r.probed,
                         status |-> r.status, last_status |-> cluster.status,
                         probe_time |-> probeTime,
                         transition_time |-> transitionTime[p]]
  /\ UNCHANGED <<mutex, pc, sink, trace, refusal, notice, now, transitionTime,
                 monitorVars>>

\* A second passes
TimePasses ==
  /\ now < ProbeClock
  /\ now' = now + 1
  /\ refresh' = NoRefresh
  /\ UNCHANGED <<mutex, pc, sink, numPods, podDeleting, fin, info, ready,
                 completed, gr, cluster, trace, refusal, notice, probeTime,
                 transitionTime, monitorVars>>

\* The membership of pod p changes: update_membership_status stamps the time
MemberTransition(p) ==
  /\ p < numPods
  /\ transitionTime' = [transitionTime EXCEPT ![p] = now]
  /\ refresh' = NoRefresh
  /\ UNCHANGED <<mutex, pc, sink, numPods, podDeleting, fin, info, ready,
                 completed, gr, cluster, trace, refusal, notice, now, probeTime,
                 monitorVars>>

\* The states probe_status_if_needed can be called in: a created group, any
\* last published status, and times recorded or not.
InitProbe ==
  /\ numPods \in 1 .. NumPods
  /\ gr \in Groups(numPods)
  /\ info = [p \in Pods |->
               IF gr[p] = "NONE" THEN NoInfo
               ELSE Recorded(query_membership_info([gr |-> gr], p))]
  /\ ready = [p \in Pods |-> info[p].status = "ONLINE"]
  /\ fin = [p \in Pods |-> info[p].set]
  /\ completed = fin
  /\ podDeleting = [p \in Pods |-> FALSE]
  /\ mutex = NoOwner
  /\ pc = [p \in Pods |-> "idle"]
  /\ sink = [p \in Pods |-> NoSink]
  /\ \E st \in ClusterDiags \cup {None} :
       cluster = [FreshCluster("none") EXCEPT !.createTime = TRUE, !.status = st,
                     !.onlineInstances = Cardinality({p \in Pods : ready[p]})]
  /\ trace = NoTrace
  /\ refusal = NoRefusal
  /\ notice = NoNotice
  /\ now = 2
  /\ probeTime \in {NoTime} \cup 1 .. 2
  /\ transitionTime \in [Pods -> {NoTime} \cup 1 .. 2]
  /\ refresh = NoRefresh
  /\ clusters = <<>>
  /\ sessions = {}
  /\ thread = [phase |-> "ensure", i |-> 1]
  /\ polled = {}
  /\ stopped = FALSE
  /\ monitored = NoMonitored

NextProbe ==
  \/ \E p \in Pods : ProbeIfNeeded(p)
  \/ TimePasses
  \/ \E p \in Pods : MemberTransition(p)

SpecProbe == InitProbe /\ [][NextProbe]_vars

\* ------------------------------------------------------ the group monitor
\* group_monitor.k_connect_retry_interval
k_connect_retry_interval == 10

\* The clock stops at MaxClock; at most MaxSessions X sessions are open at a
\* time, a connect beyond that is refused; at most MaxPending notices wait in
\* a session.
MaxClock == 13
MaxSessions == 2
MaxPending == 2

\* The (namespace, name) of the clusters, those of them whose sessions the
\* running monitor is followed for, the handlers they are registered with,
\* the view ids a notice carries, and the seconds an iteration of run() can
\* take.
ClusterNames == {"a", "b"}
Watched == {"a"}
Handlers == {"h1", "h2"}
Views == {1, 2}
Elapsed == {0, 6}

\* self.session = None; view_id None; no member id
NoSession == 0
NoView == 0
NoMember == <<>>

\* The owner of a session whose MonitoredCluster left the list
Dropped == "dropped"

\* MonitoredCluster.__init__; target_not_primary None is false in a condition;
\* target, which is only printed, is left out
MonitoredCluster(name, handler) ==
  [name |-> name, handler |-> handler, session |-> NoSession,
   target_not_primary |-> FALSE, last_connect_attempt |-> NoTime,
   last_primary_id |-> NoMember, last_view_id |-> NoView]

\* A MonitoredCluster inside one of its methods: the record, the sessions
\* that are open, the handler calls made, whether a connect was attempted,
\* whether an error was raised while a notice was fetched or processed
\* (erred), whether a mysqlsh.Error is on its way to the caller (failed) and
\* whether the method raised.
Running(c, open) ==
  [c |-> c, open |-> open, handled |-> <<>>, attempted |-> FALSE, erred |-> FALSE,
   failed |-> FALSE, raised |-> FALSE]

\* The pods in the order of cluster.get_pods(), those of S only
PodSeq(S) == SelectSeq([i \in 1 .. NumPods |-> i - 1], LAMBDA p : p \in S)

\* The id of the next session: the least one no open session has
FreeId(open) ==
  CHOOSE i \in 1 .. (MaxSessions + 1) :
    /\ i \notin {s.id : s \in open}
    /\ \A j \in 1 .. (i - 1) : j \in {s.id : s \in open}

\* mysqlx.get_session succeeds at pod
CanOpen(m, env, pod) == pod \in env.up /\ Cardinality(m.open) < MaxSessions

\* No session object: None
NotConnected == [m |-> <<>>, s |-> NoSession, pod |-> NoPod]

\* mysqlx.get_session(pod.xendpoint_co): the session, and the sessions open now
Open(m, pod) ==
  LET id == FreeId(m.open)
  IN [m |-> [m EXCEPT !.open = @ \cup {[id |-> id, owner |-> m.c.name]}],
      s |-> id, pod |-> pod]

\* session.close()
Close(m, sid) == [m EXCEPT !.open = {s \in @ : s.id # sid}]

\* find_primary after jump_to_primary(session): the jump opened session j to
\* the PRIMARY, and the session o to the pod is closed
Jumped(j, o, not_primary) ==
  [found |-> TRUE, m |-> Close(j.m, o.s), s |-> [j EXCEPT !.m = <<>>],
   not_primary |-> not_primary]

\* find_primary after try_connect(pod) gave session o: jump_to_primary gives
\* o itself on the PRIMARY, a new session if the PRIMARY accepts one, or None,
\* and then o is kept in not_primary
Connected(o, env, not_primary) ==
  IF env.prim = o.pod
  THEN [found |-> TRUE, m |-> o.m, s |-> [o EXCEPT !.m = <<>>],
        not_primary |-> not_primary]
  ELSE IF env.prim # NoPod /\ CanOpen(o.m, env, env.prim)
  THEN Jumped(Open(o.m, env.prim), o, not_primary)
  ELSE [found |-> FALSE, m |-> o.m, s |-> NotConnected,
        not_primary |-> [o EXCEPT !.m = <<>>]]

\* One round of a loop of find_primary: try_connect(pod), and what follows
TryPod(m, env, pod, not_primary) ==
  IF ~CanOpen(m, env, pod)
  THEN [found |-> FALSE, m |-> m, s |-> NotConnected, not_primary |-> not_primary]
  ELSE Connected(Open(m, pod), env, not_primary)

\* A `for pod in pods` loop of find_primary over the pods of the sequence; r
\* is what the round before gave
RECURSIVE FindLoop(_, _, _)
FindLoop(r, env, pods) ==
  IF r.found \/ pods = <<>> THEN r
  ELSE FindLoop(TryPod(r.m, env, Head(pods), r.not_primary), env, Tail(pods))

\* find_primary before its first loop
NotFound(m) ==
  [found |-> FALSE, m |-> m, s |-> NotConnected, not_primary |-> NotConnected]

\* The return of find_primary
Found(r) ==
  IF r.found THEN [m |-> r.m, session |-> r.s, is_primary |-> TRUE]
  ELSE [m |-> r.m, session |-> r.not_primary, is_primary |-> FALSE]

\* MonitoredCluster.find_primary: the pods recorded as PRIMARY first, then all
find_primary(m, env) ==
  Found(FindLoop(FindLoop(NotFound(m), env, PodSeq(env.roles)), env, PodSeq(Pods)))

\* MonitoredCluster.connect_to_primary: setup is how run_sql and
\* _enable_notices end in each round of the while loop: "ok", "gone" (an error
\* of the CR_* range, the loop goes round again; the server that was gone no
\* longer answers and has dropped its end of the session) or "error".
\* SetUp is the loop body after find_primary returned f.
RECURSIVE SetUp(_, _, _)
SetUp(f, env, setup) ==
  IF f.session.s = NoSession THEN [f.m EXCEPT !.c.session = NoSession]
  ELSE IF Head(setup) = "ok"
  THEN [f.m EXCEPT !.c.target_not_primary = ~f.is_primary,
                   !.c.session = f.session.s]
  ELSE IF Head(setup) = "gone"
  THEN SetUp(find_primary(Close(f.m, f.session.s),
                          [env EXCEPT !.up = @ \ {f.session.pod},
                                      !.prim = IF @ = f.session.pod THEN NoPod ELSE @]),
             [env EXCEPT !.up = @ \ {f.session.pod},
                         !.prim = IF @ = f.session.pod THEN NoPod ELSE @],
             Tail(setup))
  ELSE [f.m EXCEPT !.raised = TRUE]

connect_to_primary_session(m, env) == SetUp(find_primary(m, env), env, env.setup)

\* The loop `for member_id, role, ... in members` of on_view_change
RECURSIVE ScanMembers(_, _, _, _)
ScanMembers(members, i, last_primary_id, primary) ==
  IF i > Len(members) THEN [primary |-> primary, force_reconnect |-> FALSE]
  ELSE IF last_primary_id = members[i].member_id /\ members[i].role # "PRIMARY"
  THEN [primary |-> primary, force_reconnect |-> TRUE]
  ELSE ScanMembers(members, i + 1, last_primary_id,
                   IF members[i].role = "PRIMARY" /\ primary = NoMember
                   THEN members[i].member_id ELSE primary)

\* on_view_change, line 171: self.handler(self.cluster, members, changed).
\* The entry tells what the call was made with, the view id of the notice,
\* whether the session was open as the call was made, what the record held
\* then, and whether on_view_change went on to close the session.
Called(m, view_id, members) ==
  [m EXCEPT !.handled =
     Append(@, [name |-> m.c.name, handler |-> m.c.handler, members |-> members,
                view |-> view_id, changed |-> view_id # m.c.last_view_id,
                live |-> \E x \in m.open : x.id = m.c.session,
                last_primary_id |-> m.c.last_primary_id,
                target_not_primary |-> m.c.target_not_primary,
                closed |-> FALSE])]

\* on_view_change, lines 171-183: the handler is called, the view id and the
\* primary the scan found are recorded
ViewRecorded(m, view_id, members, scan) ==
  [force_reconnect |-> scan.force_reconnect,
   m |-> [Called(m, view_id, members) EXCEPT !.c.last_view_id = view_id,
                                             !.c.last_primary_id = scan.primary]]

\* An on_view_change that reconnects only when the PRIMARY changed
Reconnect_OnPrimaryChange(r) ==
  IF r.force_reconnect
  THEN [Close(r.m, r.m.c.session) EXCEPT !.c.session = NoSession,
                                         !.handled[Len(r.m.handled)].closed = TRUE]
  ELSE r.m

\* on_view_change, lines 186-190
Reconnect(r) ==
  IF r.m.c.target_not_primary \/ r.force_reconnect
  THEN [Close(r.m, r.m.c.session) EXCEPT !.c.session = NoSession,
                                         !.handled[Len(r.m.handled)].closed = TRUE]
  ELSE r.m

\* MonitoredCluster.on_view_change, after query_members answered members
on_view_change(m, view_id, members) ==
  Reconnect(ViewRecorded(m, view_id, members,
                         ScanMembers(members, 1, m.c.last_primary_id, NoMember)))

\* MonitoredCluster.on_view_change: query_members raises mysqlsh.Error, the
\* handler raises an error of its own, or lines 172-190 run
ViewChange(m, view_id, q) ==
  IF q.query = "error" THEN [m EXCEPT !.erred = TRUE, !.failed = TRUE]
  ELSE IF q.handler = "error"
  THEN [Called(m, view_id, q.members) EXCEPT !.erred = TRUE, !.raised = TRUE]
  ELSE on_view_change(m, view_id, q.members)

\* ensure_connected attempts to connect at time t
Due(c, t) ==
  /\ c.session = NoSession
  /\ \/ c.last_connect_attempt = NoTime
     \/ t - c.last_connect_attempt > k_connect_retry_interval

\* An error on its way to the caller leaves a method that does not catch it
Uncaught(m) == IF m.failed THEN [m EXCEPT !.failed = FALSE, !.raised = TRUE] ELSE m

\* An ensure_connected without the forced refresh
Refreshed_Skipped(m, env) == m

\* ensure_connected, lines 66-70, after connect_to_primary: the forced
\* refresh; no error of on_view_change is caught here
Refreshed(m, env) ==
  IF m.raised \/ m.c.session = NoSession THEN m
  ELSE Uncaught(ViewChange(m, NoView, env))

\* ensure_connected, lines 59-70
Attempt(m, env, t) ==
  Refreshed(connect_to_primary_session(
              [m EXCEPT !.c.last_connect_attempt = t, !.c.session = NoSession,
                        !.attempted = TRUE], env),
            env)

\* An ensure_connected that does not wait between its attempts
ensure_connected_Unthrottled(m, env, t) ==
  IF m.c.session = NoSession THEN Attempt(m, env, t) ELSE m

\* MonitoredCluster.ensure_connected at time t
ensure_connected(m, env, t) == IF Due(m.c, t) THEN Attempt(m, env, t) ELSE m

\* handle_notice, lines 162-166: the except branch
Caught(m) == [Close(m, m.c.session) EXCEPT !.c.session = NoSession, !.failed = FALSE]

\* The while loop of handle_notice: `pending` are the notices the session
\* has yet to deliver, each with what on_view_change meets; after them
\* `select 1` or the fetch fails (tail "error") or the fetch finds nothing.
\* AfterNotice is lines 159-166 once on_view_change is over.
RECURSIVE NoticeLoop(_, _, _)
RECURSIVE AfterNotice(_, _, _)
AfterNotice(r, pending, tail) ==
  IF r.failed THEN Caught(r)
  ELSE IF r.raised \/ r.c.session = NoSession THEN r
  ELSE NoticeLoop(r, pending, tail)

NoticeLoop(m, pending, tail) ==
  IF pending = <<>> THEN IF tail = "error" THEN Caught([m EXCEPT !.erred = TRUE]) ELSE m
  ELSE AfterNotice(ViewChange(m, Head(pending).view, Head(pending)), Tail(pending), tail)

\* A handle_notice that handles one notice in a call
handle_notice_OneNotice(m, env) ==
  IF env.pending = <<>> THEN NoticeLoop(m, env.pending, env.tail)
  ELSE AfterNotice(ViewChange(m, Head(env.pending).view, Head(env.pending)), <<>>, "none")

\* MonitoredCluster.handle_notice
handle_notice(m, env) == NoticeLoop(m, env.pending, env.tail)

\* A monitor_cluster that registers the cluster anew
monitor_cluster_Replaces(list, name, handler) ==
  [i \in 1 .. Len(list) |->
     IF list[i].name = name THEN MonitoredCluster(name, handler) ELSE list[i]]
  \o (IF \E i \in 1 .. Len(list) : list[i].name = name THEN <<>>
      ELSE <<MonitoredCluster(name, handler)>>)

\* GroupMonitor.monitor_cluster
monitor_cluster(list, name, handler) ==
  IF \E i \in 1 .. Len(list) : list[i].name = name THEN list
  ELSE Append(list, MonitoredCluster(name, handler))

\* GroupMonitor.remove_cluster: the first record of that name leaves the list
remove_cluster(list, name) ==
  LET found == {i \in 1 .. Len(list) : list[i].name = name}
  IN IF found = {} THEN list
     ELSE LET k == CHOOSE i \in found : \A j \in found : i <= j
          IN SubSeq(list, 1, k - 1) \o SubSeq(list, k + 1, Len(list))

\* What query_members can answer: some of the pods, in their order, each
\* PRIMARY or SECONDARY
MemberAnswers ==
  UNION {{[i \in 1 .. Len(PodSeq(S)) |->
             [member_id |-> Uuid(PodSeq(S)[i]), role |-> r[PodSeq(S)[i]]]] :
            r \in {f \in [S -> {"PRIMARY", "SECONDARY"}] :
                     Cardinality({p \in S : f[p] = "PRIMARY"}) <= 1}} :
         S \in {{0}, Pods}}

\* What a connect attempt meets: the pods recorded as PRIMARY, the pods that
\* accept a session, the PRIMARY a jump finds, and the answers of the session
ConnectEnvs ==
  {e \in [roles : {{}, {0}, Pods}, up : SUBSET Pods, prim : Pods \cup {NoPod},
          setup : {<<"ok">>, <<"error">>, <<"gone", "ok">>},
          query : {"ok", "error"}, handler : {"ok", "error"},
          members : MemberAnswers] :
     /\ e.prim \in e.up \cup {NoPod}
     /\ (e.query = "error" \/ e.handler = "error") =>
          /\ e.members = <<[member_id |-> Uuid(0), role |-> "PRIMARY"]>>
          /\ e.query = "ok" \/ e.handler = "ok"}

\* What an ensure_connected that attempts nothing meets
NoEnv ==
  [roles |-> {}, up |-> {}, prim |-> NoPod, setup |-> <<"ok">>, query |-> "ok",
   handler |-> "ok", members |-> <<[member_id |-> Uuid(0), role |-> "PRIMARY"]>>]

\* A pending notice: its view id and what on_view_change meets for it
Notices ==
  {q \in [view : Views, query : {"ok", "error"}, handler : {"ok", "error"},
          members : MemberAnswers] :
     (q.query = "error" \/ q.handler = "error") =>
       /\ q.members = <<[member_id |-> Uuid(0), role |-> "PRIMARY"]>>
       /\ q.query = "ok" \/ q.handler = "ok"}

\* What handle_notice meets: at most MaxPending notices, in the order the
\* session received them, and how the fetch after them ends
NoticeEnvs ==
  [pending : UNION {[1 .. n -> Notices] : n \in 0 .. MaxPending},
   tail : {"none", "error"}]

\* The view ids of a sequence of notices or of handler calls
ViewsOf(q) == [i \in 1 .. Len(q) |-> q[i].view]

\* What the sinks' state is to the monitor
sinkVars ==
  <<mutex, pc, sink, numPods, podDeleting, fin, info, ready, completed, gr,
    cluster, trace, refusal, notice>>

Names(list) == {list[i].name : i \in 1 .. Len(list)}

\* A run() that goes on after stop()
Continue_Regardless(flag) == "ensure"

\* run(), line 221: `while not self.stopped`, where the thread goes from the
\* end of an iteration
Continue(flag) == IF flag THEN "exited" ELSE "ensure"

\* GroupMonitor.stop
Stop ==
  /\ ~stopped
  /\ stopped' = TRUE
  /\ monitored' = [NoMonitored EXCEPT !.op = "stop"]
  /\ UNCHANGED <<clusters, sessions, thread, polled, now, sinkVars, probeVars>>

\* A handler thread registers a cluster
MonitorCluster(name, handler) ==
  /\ clusters' = monitor_cluster(clusters, name, handler)
  /\ monitored' = [NoMonitored EXCEPT !.op = "monitor_cluster", !.name = name,
                                      !.handler = handler]
  /\ UNCHANGED <<sessions, thread, polled, stopped, now, sinkVars, probeVars>>

\* A handler thread removes a cluster
RemoveCluster(name) ==
  /\ clusters' = remove_cluster(clusters, name)
  /\ sessions' = {IF s.owner = name THEN [s EXCEPT !.owner = Dropped] ELSE s :
                    s \in sessions}
  /\ monitored' =
       [NoMonitored EXCEPT
          !.op = "remove_cluster", !.name = name,
          !.held = IF name \in Names(clusters)
                   THEN clusters[CHOOSE i \in 1 .. Len(clusters) :
                                   clusters[i].name = name].session
                   ELSE NoSession]
  /\ UNCHANGED <<thread, polled, stopped, now, sinkVars, probeVars>>

\* run(), first loop: ensure_connected of the record the iterator stands at,
\* in one of the environments Envs when it attempts to connect
EnsureStepIn(Envs) ==
  /\ thread.phase = "ensure" /\ thread.i <= Len(clusters)
  /\ \E env \in IF Due(clusters[thread.i], now) THEN Envs ELSE {NoEnv} :
     \E c \in {clusters[thread.i]} :
     \E m \in {ensure_connected(Running(c, sessions), env, now)} :
          /\ clusters' = [clusters EXCEPT ![thread.i] = m.c]
          /\ sessions' = m.open
          /\ thread' = IF m.raised THEN [phase |-> "dead", i |-> 1]
                       ELSE [thread EXCEPT !.i = @ + 1]
          /\ polled' = IF m.c.session # NoSession /\ ~m.raised
                       THEN polled \cup {m.c.session} ELSE polled
          /\ monitored' = [NoMonitored EXCEPT
                             !.op = "ensure_connected", !.name = c.name,
                             !.attempted = m.attempted,
                             !.prev = c.last_connect_attempt,
                             !.held = c.session, !.handled = m.handled,
                             !.erred = m.erred, !.raised = m.raised,
                             !.up = env.up,
                             !.primary = env.prim # NoPod]
  /\ UNCHANGED <<stopped, now, sinkVars, probeVars>>

EnsureStep == EnsureStepIn(ConnectEnvs)

\* run(): mysql.poll_sessions(sessions, 1000) returns the sessions that are
\* readable; with none the loop starts again. The iteration took one of the
\* times of E.
PollIn(E) ==
  /\ thread.phase = "ensure" /\ thread.i > Len(clusters)
  /\ \E readable \in SUBSET polled, d \in E :
       /\ now + d <= MaxClock
       /\ now' = now + d
       /\ polled' = readable
       /\ thread' = [phase |-> IF readable # {} THEN "handle" ELSE Continue(stopped),
                     i |-> 1]
  /\ monitored' = [NoMonitored EXCEPT !.op = "poll_sessions"]
  /\ UNCHANGED <<clusters, sessions, stopped, sinkVars, probeVars>>

Poll == PollIn(Elapsed)

\* run(), second loop: handle_notice of the record the iterator stands at if
\* its session is readable, in one of the environments Envs
HandleStepIn(Envs) ==
  /\ thread.phase = "handle" /\ thread.i <= Len(clusters)
  /\ \E c \in {clusters[thread.i]} :
        IF c.session # NoSession /\ c.session \in polled
        THEN \E env \in Envs :
             \E m \in {handle_notice(Running(c, sessions), env)} :
                  /\ clusters' = [clusters EXCEPT ![thread.i] = m.c]
                  /\ sessions' = m.open
                  /\ thread' = IF m.raised THEN [phase |-> "dead", i |-> 1]
                               ELSE [thread EXCEPT !.i = @ + 1]
                  /\ monitored' = [NoMonitored EXCEPT
                                     !.op = "handle_notice", !.name = c.name,
                                     !.held = c.session, !.handled = m.handled,
                                     !.erred = m.erred, !.raised = m.raised,
                                     !.pending = ViewsOf(env.pending),
                                     !.tail = env.tail]
        ELSE /\ UNCHANGED <<clusters, sessions>>
             /\ thread' = [thread EXCEPT !.i = @ + 1]
             /\ monitored' = [NoMonitored EXCEPT !.op = "skip", !.name = c.name]
  /\ UNCHANGED <<polled, stopped, now, sinkVars, probeVars>>

HandleStep == HandleStepIn(NoticeEnvs)

\* run(): the second loop is over, the next iteration begins
LoopAgain ==
  /\ thread.phase = "handle" /\ thread.i > Len(clusters)
  /\ thread' = [phase |-> Continue(stopped), i |-> 1]
  /\ polled' = {}
  /\ monitored' = [NoMonitored EXCEPT !.op = "loop"]
  /\ UNCHANGED <<clusters, sessions, stopped, now, sinkVars, probeVars>>

\* The operator process starts: the monitor thread runs, no cluster yet
InitMonitor == Init /\ cluster = FreshCluster("none")

NextMonitor ==
  \/ \E name \in Watched, handler \in Handlers : MonitorCluster(name, handler)
  \/ \E name \in Watched : RemoveCluster(name)
  \/ EnsureStep
  \/ Poll
  \/ HandleStep
  \/ LoopAgain
  \/ Stop

SpecMonitor == InitMonitor /\ [][NextMonitor]_vars

\* The monitor of one cluster whose members never change roles: every
\* member list names pod 0 as the PRIMARY, a session holds at most one
\* notice, and an iteration of run() takes no time or longer than the
\* connect retry interval.
OnePrimary == <<[member_id |-> Uuid(0), role |-> "PRIMARY"]>>

StopConnectEnvs == {e \in ConnectEnvs : e.members = OnePrimary /\ e.roles = {}}

StopNoticeEnvs ==
  {e \in NoticeEnvs :
     /\ Len(e.pending) <= 1
     /\ \A i \in 1 .. Len(e.pending) :
          e.pending[i].members = OnePrimary /\ e.pending[i].view = 1}

StopElapsed == {0, k_connect_retry_interval + 1}

\* The steps of run(). The monitor thread is scheduled: a step of run() that
\* can be taken is taken in the end. Every call run() makes returns or raises
\* within its step; connect_to_primary goes round its loop once per "gone".
Tick ==
  \/ EnsureStepIn(StopConnectEnvs)
  \/ PollIn(StopElapsed)
  \/ HandleStepIn(StopNoticeEnvs)
  \/ LoopAgain

NextStop ==
  \/ \E name \in Watched : MonitorCluster(name, "h1")
  \/ \E name \in Watched : RemoveCluster(name)
  \/ Tick
  \/ Stop

SpecStop == InitMonitor /\ [][NextStop]_vars /\ WF_vars(Tick)

\* The lists the handler threads can find: a record for some of the
\* clusters, in any order, each with whatever the monitor has recorded in it
\* and the session it holds, if it holds one
Registries ==
  UNION {{[i \in 1 .. Len(o) |->
             [MonitoredCluster(o[i], f[i].handler) EXCEPT
                !.session = IF f[i].held THEN i ELSE NoSession,
                !.last_view_id = f[i].view,
                !.last_primary_id = f[i].primary,
                !.last_connect_attempt = 1]] :
            f \in [1 .. Len(o) ->
                     [handler : Handlers, held : BOOLEAN, view : {NoView, 1},
                      primary : {NoMember, Uuid(0)}]]} :
         o \in UNION {Orders(S) : S \in SUBSET ClusterNames}}

\* The states monitor_cluster and remove_cluster can be called in
InitRegistry ==
  /\ mutex = NoOwner
  /\ pc = [p \in Pods |-> "idle"]
  /\ sink = [p \in Pods |-> NoSink]
  /\ numPods = 1
  /\ podDeleting = [p \in Pods |-> FALSE]
  /\ fin = [p \in Pods |-> FALSE]
  /\ info = [p \in Pods |-> NoInfo]
  /\ ready = [p \in Pods |-> FALSE]
  /\ completed = [p \in Pods |-> FALSE]
  /\ gr = [p \in Pods |-> "NONE"]
  /\ cluster = FreshCluster("none")
  /\ trace = NoTrace
  /\ refusal = NoRefusal
  /\ notice = NoNotice
  /\ now = 2
  /\ probeTime = NoTime
  /\ transitionTime = [p \in Pods |-> NoTime]
  /\ refresh = NoRefresh
  /\ clusters \in Registries
  /\ sessions = {[id |-> clusters[i].session, owner |-> clusters[i].name] :
                   i \in {j \in 1 .. Len(clusters) : clusters[j].session # NoSession}}
  /\ thread = [phase |-> "ensure", i |-> 1]
  /\ polled = {}
  /\ stopped = FALSE
  /\ monitored = NoMonitored

NextRegistry ==
  \/ \E name \in ClusterNames, handler \in Handlers : MonitorCluster(name, handler)
  \/ \E name \in ClusterNames : RemoveCluster(name)

SpecRegistry == InitRegistry /\ [][NextRegistry]_vars

\* -------------------------------------------------------- the properties
HasAdminCall(ev) == \E i \in 1 .. Len(ev) : ev[i].op \in AdminMutatingCalls

\* C1: at most one sink is inside its ClusterMutex critical section at any
\* time, the sink inside is the recorded holder, and a sink whose body issued
\* admin-mutating calls held the mutex while it ran: so at most one
\* admin-mutating call is in flight.
C1_OneSinkInside ==
  /\ Cardinality({p \in Pods : pc[p] = "locked"}) <= 1
  /\ \A p \in Pods : pc[p] = "locked" => mutex = PodName(p)
  /\ trace.ran => /\ trace.holder = PodName(trace.pod)
                  /\ \A p \in Pods : pc[p] = "idle"

\* A sink was refused while the sink of another pod is inside.
C1_Contention ==
  \E p \in Pods : pc[p] = "locked" /\ refusal.refused /\ refusal.pod # p

\* C2: an acquire on a held slot fails with TemporaryError of delay 10 that
\* carries the holder; the holder stays recorded, and the failed acquirer does
\* not get inside.
C2_BusyAcquire ==
  [][mutex # NoOwner =>
       /\ \A p \in Pods : pc[p] = "idle" => pc'[p] = "idle"
       /\ refusal'.refused =>
            /\ refusal'.res = Temp(MutexBusyDelay)
            /\ refusal'.res.delay = 10
            /\ refusal'.owner = mutex
            /\ mutex' = mutex]_vars

\* The acquire of a pod was refused, with the holder it names still recorded.
C2_Refused ==
  /\ refusal.refused
  /\ refusal.owner # NoOwner /\ refusal.owner # PodName(refusal.pod)
  /\ mutex = refusal.owner

\* C3: when a holder leaves the critical section, however its sink ended, the
\* mutex slot is empty afterwards; the slot is never held while no sink is
\* inside, so the next acquire succeeds.
C3_SlotEmptyAfterExit ==
  /\ trace.ran => mutex = NoOwner /\ pc[trace.pod] = "idle"
  /\ (\A p \in Pods : pc[p] = "idle") => mutex = NoOwner

\* A sink left the critical section by an exception that is no framework signal.
C3_LeftByException ==
  /\ trace.ran /\ trace.res.kind \notin {"ok", "temp", "perm"}
  /\ mutex = NoOwner

\* C4: every sink invocation ends in a normal return, a TemporaryError or a
\* PermanentError; no other error escapes a sink.
C4_ThreeOutcomes == trace.ran => trace.res.kind \in {"ok", "temp", "perm"}

\* The entries of the last sink's trace that remove the finalizer of a pod
\* that had completed create_cluster or join_instance
FinalizerDrops ==
  {i \in 1 .. Len(trace.ev) :
     trace.ev[i].op = "remove_member_finalizer" /\ trace.ev[i].res = "completed"}

\* Before entry i, remove_instance found pod p removed from the cluster
RemovedBefore(i, p) ==
  \E j \in 1 .. (i - 1) :
    /\ trace.ev[j].op = "remove_instance" /\ trace.ev[j].pod = p
    /\ trace.ev[j].res \in {"ok", "metadata_missing"}

\* C5 as the spec states it: the finalizer of a pod that completed
\* create_cluster or join_instance stays until remove_instance has removed the
\* pod from the cluster, or destroy_cluster ran for a cluster being deleted.
C5_UntilRemovedOrDestroyed ==
  /\ \A p \in Pods : completed[p] => fin[p]
  /\ \A i \in FinalizerDrops :
       \/ /\ trace.ev[i].opt = "remove_instance"
          /\ RemovedBefore(i, trace.ev[i].pod)
       \/ /\ trace.ev[i].opt = "destroy_cluster"
          /\ cluster.deleting

\* C5 as the code has it: the finalizer of such a pod stays until
\* on_pod_deleted for that pod ends remove_instance, which has removed the pod
\* from the cluster, or skipped the removal because no other pod exists, or
\* gave the removal up because the cluster is being deleted; or until
\* destroy_cluster ran for pod 0 of a cluster being deleted. No other sink,
\* and no create, repair, reboot or reconcile, removes it.
C5_FinalizerKept ==
  /\ \A p \in Pods : completed[p] => fin[p]
  /\ \A i \in FinalizerDrops :
       /\ trace.kind = "on_pod_deleted"
       /\ trace.ev[i].pod = trace.pod
       /\ trace.res = Ok
       /\ \/ /\ trace.ev[i].opt = "remove_instance"
             /\ \/ RemovedBefore(i, trace.ev[i].pod)
                \/ numPods <= 1
                \/ cluster.deleting
          \/ /\ trace.ev[i].opt = "destroy_cluster"
             /\ cluster.deleting /\ trace.pod = 0

\* remove_instance took the finalizer of a pod that had completed and still
\* is a member of the cluster.
C5_DroppedWhileMember ==
  \E i \in FinalizerDrops :
    /\ trace.ev[i].opt = "remove_instance"
    /\ InMetadata(gr[trace.ev[i].pod])
    /\ podDeleting[trace.ev[i].pod] /\ ~fin[trace.ev[i].pod]

\* C7: handling a group view change changes only the observed membership and
\* the ready gate of pods: no admin-mutating call, no finalizer added or
\* removed, the cluster status block and the ClusterMutex as they were.
C7_OnlyInformational ==
  [][notice'.handled =>
       /\ UNCHANGED <<mutex, pc, sink, fin, completed, gr, cluster, numPods,
                      podDeleting>>
       /\ \A i \in 1 .. Len(notice'.ev) :
            notice'.ev[i].op \in {"update_membership_status",
                                  "update_member_readiness_gate"}
       /\ \A p \in Pods : p >= numPods => info'[p] = info[p] /\ ready'[p] = ready[p]]_vars

\* A view change rewrote the record and the gate of a pod while a sink held
\* the mutex.
C7_HandledUnderSink ==
  /\ notice.handled /\ Len(notice.ev) > 0
  /\ mutex # NoOwner
  /\ \E p \in Pods : pc[p] = "locked" /\ fin[p] /\ info[p].status = "UNREACHABLE" /\ ~ready[p]

\* The members of the handled notice that are pod p
OwnMembers(p) ==
  {i \in 1 .. Len(notice.members) : notice.members[i].endpoint = Endpoint(p)}

\* C8: after a view change is handled, every pod's recorded membership is the
\* tuple of its own member in the notice, and no pod the notice does not list
\* keeps a record that says it is an ONLINE member, or a ready gate that is on.
C8_MatchesNotice ==
  notice.handled =>
    \A p \in 0 .. (numPods - 1) :
      /\ \A i \in OwnMembers(p) : info[p] = Recorded(notice.members[i])
      /\ OwnMembers(p) = {} => info[p].status # "ONLINE" /\ ~ready[p]

\* The candidate diagnosis reconcile_pod acted on when it made entry i
ReconcileAt(ev, i) ==
  LET S == {j \in 1 .. i : ev[j].op = "reconcile_pod"}
  IN IF S = {} THEN None ELSE ev[CHOOSE j \in S : \A k \in S : k <= j].opt

\* C6: add_instance is issued only under candidate diagnosis JOINABLE, and
\* rejoin_instance only under REJOINABLE.
C6_JoinOnlyJoinable ==
  \A i \in 1 .. Len(trace.ev) :
    /\ trace.ev[i].op = "add_instance" => ReconcileAt(trace.ev, i) = "JOINABLE"
    /\ trace.ev[i].op = "rejoin_instance" => ReconcileAt(trace.ev, i) = "REJOINABLE"

\* A sink added a JOINABLE pod to the cluster.
C6_Joined ==
  \E i \in 1 .. Len(trace.ev) :
    /\ trace.ev[i].op = "add_instance" /\ trace.ev[i].res = "ok"
    /\ ReconcileAt(trace.ev, i) = "JOINABLE"
    /\ gr[trace.ev[i].pod] = "ONLINE"

\* What reconcile_pod and remove_instance may change
SameState(w1, w2) ==
  /\ w1.fin = w2.fin /\ w1.info = w2.info /\ w1.ready = w2.ready
  /\ w1.gr = w2.gr /\ w1.cluster = w2.cluster /\ w1.completed = w2.completed

\* Result r of reconcile_pod, started in world w0, acted on candidate diagnosis c
ReconciledAs(r, w0, c) ==
  /\ Len(r.w.ev) > Len(w0.ev)
  /\ r.w.ev[Len(w0.ev) + 1].op = "reconcile_pod"
  /\ r.w.ev[Len(w0.ev) + 1].opt = c

\* C9: reconcile_pod on a pod diagnosed MEMBER returns without a call, without
\* a change of finalizers or of observed pod state, and so does repeating it.
C9_MemberNoOp ==
  /\ \A p \in 0 .. (numPods - 1) : \A pr \in {Primary(gr), NoPod} :
       \A r \in reconcile_pod(World, pr, p) :
         ReconciledAs(r, World, "MEMBER") =>
           /\ r.res = Ok
           /\ Len(r.w.ev) = 1
           /\ SameState(r.w, World)
           /\ \A r2 \in reconcile_pod(r.w, pr, p) :
                ReconciledAs(r2, r.w, "MEMBER") =>
                  r2.res = Ok /\ Len(r2.w.ev) = 2 /\ SameState(r2.w, World)
  /\ (trace.ran /\ trace.kind # "on_pod_deleted" /\ trace.cand = "MEMBER") =>
       /\ trace.res = Ok
       /\ trace.ev[Len(trace.ev)].op = "reconcile_pod"

\* A sink reconciled a pod that is an ONLINE member.
C9_MemberReconciled ==
  /\ trace.ran /\ trace.reconciled /\ trace.cand = "MEMBER"
  /\ gr[trace.pod] = "ONLINE" /\ fin[trace.pod]

\* C10: a second remove_instance, after one that left the pod removed from
\* the cluster, is answered 'member metadata missing' and returns with the
\* state the first left: no finalizer, no membership.
C10_RemoveTwice ==
  \A p \in 0 .. (numPods - 1) :
    \A r1 \in remove_instance(World, p) :
      (r1.res = Ok /\ ~InMetadata(r1.w.gr[p])) =>
        \A r2 \in remove_instance(r1.w, p) :
          (/\ Len(r2.w.ev) > Len(r1.w.ev)
           /\ r2.w.ev[Len(r1.w.ev) + 1].op = "remove_instance") =>
            /\ r2.w.ev[Len(r1.w.ev) + 1].res = "metadata_missing"
            /\ r2.res = Ok
            /\ ~r2.w.fin[p] /\ ~InMetadata(r2.w.gr[p])
            /\ SameState(r2.w, r1.w)

\* on_pod_deleted removed a pod that had joined and was removed before.
C10_RemovedAgain ==
  /\ trace.ran /\ trace.kind = "on_pod_deleted" /\ trace.res = Ok
  /\ \E i \in 1 .. Len(trace.ev) :
       /\ trace.ev[i].op = "remove_instance" /\ trace.ev[i].pod = trace.pod
       /\ trace.ev[i].res = "metadata_missing"
  /\ info[trace.pod].set
  /\ ~fin[trace.pod] /\ ~InMetadata(gr[trace.pod])

\* The last sink was `kind`, and its probe gave a diagnosis of S
Ran(kind, S) == trace.ran /\ trace.kind = kind /\ trace.diag \in S

\* The entries of the last sink's trace that are `op`
Entries(op) == {i \in 1 .. Len(trace.ev) : trace.ev[i].op = op}

\* Before entry i, create_cluster had gone through to its end
CreateReturned(i) ==
  \E j \in 1 .. (i - 1) :
    trace.ev[j].op = "post_create_actions" /\ trace.ev[j].res = "ok"

\* C11: on_pod_created on diagnosis INITIALIZING issues create_cluster for
\* pod 0 only and sets the create time only after create_cluster returned;
\* for a pod of index > 0 it raises TemporaryError of delay 15 and issues no
\* admin-mutating call.
C11_CreateAtPodZero ==
  Ran("on_pod_created", {"INITIALIZING"}) =>
    /\ \A i \in Entries("create_cluster") : trace.pod = 0 /\ trace.ev[i].pod = 0
    /\ \A i \in Entries("set_create_time") :
         /\ trace.pod = 0 /\ CreateReturned(i)
         /\ i = Len(trace.ev) /\ trace.res = Ok
    /\ (trace.pod = 0 /\ cluster.createTime /\ trace.res # Perm) =>
         Entries("set_create_time") # {}
    /\ trace.pod # 0 =>
         /\ trace.res = Temp(NotReadyDelay) /\ trace.res.delay = 15
         /\ ~HasAdminCall(trace.ev)
         /\ \A i \in 1 .. Len(trace.ev) : trace.ev[i].op = "publish_status"

\* A pod of index > 0 came to a cluster that is not created yet and was
\* told to wait.
C11_OtherPodWaits ==
  /\ Ran("on_pod_created", {"INITIALIZING"})
  /\ trace.pod # 0 /\ trace.res = Temp(NotReadyDelay)
  /\ ~cluster.createTime /\ gr[0] = "NONE"

\* C12: after on_pod_created for pod 0 of a fresh cluster has created the
\* cluster and returned, the published cluster status is ONLINE with
\* onlineInstances = 1, and the create time is set.
C12_OnlineAfterCreate ==
  (Ran("on_pod_created", {"INITIALIZING"}) /\ trace.pod = 0 /\ trace.res = Ok) =>
    /\ cluster.createTime
    /\ cluster.status = "ONLINE"
    /\ cluster.onlineInstances = 1

\* The diagnoses on_pod_created hands to repair_cluster
RepairedOnCreate == ClusterDiags \ ({"INITIALIZING"} \cup OnlineFamily)

\* C13: on_pod_created, on a diagnosis other than INITIALIZING and the ONLINE
\* family, ends with TemporaryError of delay 3 whenever repair_cluster
\* returned, also after a reboot or a forced quorum; it never returns, and
\* never reconciles the pod.
C13_RetryAfterRepair ==
  Ran("on_pod_created", RepairedOnCreate) =>
    /\ trace.res # Ok
    /\ ~trace.reconciled
    /\ \A i \in 1 .. Len(trace.ev) :
         trace.ev[i].op \notin {"reconcile_pod", "add_instance", "rejoin_instance"}
    /\ (\/ trace.diag = "FINALIZING"
        \/ trace.diag = "OFFLINE" /\ trace.pod # 0
        \/ /\ trace.ev[Len(trace.ev)].res = "ok"
           /\ trace.ev[Len(trace.ev)].op \in {"reboot_cluster_from_complete_outage",
                                               "force_quorum_using_partition_of"})
       => trace.res = Temp(RepairAttemptedDelay) /\ trace.res.delay = 3
    /\ trace.res = Temp(RepairAttemptedDelay) =>
         trace.diag \in {"OFFLINE", "NO_QUORUM", "FINALIZING"}

\* on_pod_created rebooted the cluster from a complete outage and asked to be
\* called again.
C13_RebootedThenRetry ==
  /\ Ran("on_pod_created", {"OFFLINE"})
  /\ trace.res = Temp(RepairAttemptedDelay)
  /\ \E i \in Entries("reboot_cluster_from_complete_outage") : trace.ev[i].res = "ok"
  /\ gr[0] = "ONLINE"

\* The diagnoses on which repair_cluster raises before it does anything
RaisingDiags ==
  {"OFFLINE_UNCERTAIN", "NO_QUORUM_UNCERTAIN", "SPLIT_BRAIN", "SPLIT_BRAIN_UNCERTAIN",
   "UNKNOWN", "INVALID"}

RepairCalls == {"reboot_cluster_from_complete_outage", "force_quorum_using_partition_of"}

\* C14: on_pod_restarted on a diagnosis of the ONLINE family takes no repair
\* action and reconciles the pod; on any other diagnosis repair_cluster runs
\* first, and reconcile_pod is invoked after it if and only if it returned.
C14_RepairThenReconcile ==
  /\ Ran("on_pod_restarted", OnlineFamily) =>
       \A i \in 1 .. Len(trace.ev) : trace.ev[i].op \notin RepairCalls
  /\ Ran("on_pod_restarted", RaisingDiags) =>
       /\ ~trace.reconciled
       /\ trace.res \in {Temp(0), Perm}
       /\ Len(trace.ev) = 1 /\ trace.ev[1].op = "publish_status"
  /\ (Ran("on_pod_restarted", ClusterDiags \ OnlineFamily) /\ trace.reconciled) =>
       /\ trace.diag \in {"OFFLINE", "NO_QUORUM", "FINALIZING"}
       /\ trace.diag = "OFFLINE" =>
            /\ trace.pod = 0
            /\ \E i \in Entries("reboot_cluster_from_complete_outage") :
                 /\ trace.ev[i].res = "ok"
                 /\ \A j \in Entries("reconcile_pod") : i < j
       /\ trace.diag = "NO_QUORUM" =>
            \E i \in Entries("force_quorum_using_partition_of") :
              /\ trace.ev[i].res = "ok"
              /\ \A j \in Entries("reconcile_pod") : i < j
  /\ \A p \in Pods :
       (pc[p] = "locked" /\ sink[p] = "on_pod_restarted") =>
         \A diag \in diagnose_cluster(World) :
           LET repaired == IF diag.status \in {"ONLINE", "ONLINE_PARTIAL"}
                           THEN {Return(probe_status(World, diag), Ok)}
                           ELSE repair_cluster(probe_status(World, diag), p, diag)
           IN on_pod_restarted(World, p, diag) =
                {q \in repaired : q.res # Ok}
                \cup UNION {ReconcileLoop(q.w, p, diag) : q \in {x \in repaired : x.res = Ok}}

\* on_pod_restarted for pod 0 rebooted the cluster from a complete outage and
\* then found the pod a member.
C14_RebootedThenReconciled ==
  /\ Ran("on_pod_restarted", {"OFFLINE"}) /\ trace.pod = 0
  /\ trace.reconciled /\ trace.cand = "MEMBER" /\ trace.res = Ok
  /\ \E i \in Entries("reboot_cluster_from_complete_outage") : trace.ev[i].res = "ok"

\* C15: on_pod_deleted for pod 0 of a cluster being deleted tries to stop
\* group replication on the pod, removes the pod's finalizer whether the stop
\* worked or not, and returns: no remove_instance, no repair, no raise.
C15_DestroyAtPodZero ==
  (trace.ran /\ trace.kind = "on_pod_deleted" /\ trace.pod = 0 /\ cluster.deleting) =>
    /\ trace.res = Ok
    /\ ~fin[0]
    /\ Len(trace.ev) = 4
    /\ trace.ev[1].op = "publish_status"
    /\ trace.ev[2].op = "STOP group_replication" /\ trace.ev[2].pod = 0
    /\ trace.ev[3].op = "remove_member_finalizer" /\ trace.ev[3].pod = 0
    /\ trace.ev[3].opt = "destroy_cluster"
    /\ trace.ev[4].op = "remove_member_finalizer" /\ trace.ev[4].pod = 0
    /\ trace.ev[4].opt = "on_pod_deleted"

\* The stop failed on pod 0 of a cluster being deleted, and the pod lost its
\* finalizer all the same.
C15_StopFailed ==
  /\ trace.ran /\ trace.kind = "on_pod_deleted" /\ trace.pod = 0 /\ cluster.deleting
  /\ trace.ev[2].op = "STOP group_replication" /\ trace.ev[2].res = "error"
  /\ gr[0] = "ONLINE" /\ ~fin[0] /\ trace.res = Ok

\* The diagnoses on which on_pod_deleted removes the pod
RemovalDiags == OnlineFamily \cup {"FINALIZING"}

\* C16: on_pod_deleted outside the destroy path removes the instance when the
\* pod is deleting or the diagnosis is of the ONLINE family or FINALIZING, and
\* otherwise repairs the cluster and leaves the pod and its finalizer alone.
\* It never raises the 'repair attempted' TemporaryError, and when nothing
\* was raised it publishes the cluster status again before it returns.
C16_RemoveOrRepair ==
  (trace.ran /\ trace.kind = "on_pod_deleted" /\ ~(cluster.deleting /\ trace.pod = 0)) =>
    /\ trace.res # Temp(RepairAttemptedDelay)
    /\ trace.res = Ok =>
         /\ Len(trace.ev) >= 2
         /\ trace.ev[Len(trace.ev)].op = "publish_status"
    /\ (podDeleting[trace.pod] \/ trace.diag \in RemovalDiags) =>
         /\ \A i \in 1 .. Len(trace.ev) : trace.ev[i].op \notin RepairCalls
         /\ trace.res = Ok =>
              /\ ~fin[trace.pod]
              /\ \E i \in Entries("remove_member_finalizer") :
                   trace.ev[i].pod = trace.pod /\ trace.ev[i].opt = "remove_instance"
    /\ ~(podDeleting[trace.pod] \/ trace.diag \in RemovalDiags) =>
         /\ Entries("remove_instance") = {}
         /\ \A i \in Entries("remove_member_finalizer") : trace.ev[i].pod # trace.pod
         /\ trace.diag \in RaisingDiags =>
              trace.res \in {Temp(0), Perm} /\ Len(trace.ev) = 1

\* on_pod_deleted for a pod that is not deleting rebooted the cluster, kept
\* the pod's finalizer, published the status again and returned.
C16_RepairedAndReturned ==
  /\ Ran("on_pod_deleted", {"OFFLINE"}) /\ ~podDeleting[trace.pod] /\ ~cluster.deleting
  /\ trace.res = Ok /\ fin[trace.pod]
  /\ \E i \in Entries("reboot_cluster_from_complete_outage") : trace.ev[i].res = "ok"
  /\ trace.ev[Len(trace.ev)].op = "publish_status"
  /\ trace.ev[Len(trace.ev)].opt = "ONLINE_PARTIAL"

\* The last sink handed its diagnosis to repair_cluster
ReachedRepair ==
  /\ trace.ran
  /\ \/ trace.kind = "on_pod_created" /\ trace.diag \in RepairedOnCreate
     \/ trace.kind = "on_pod_restarted" /\ trace.diag \notin {"ONLINE", "ONLINE_PARTIAL"}
     \/ /\ trace.kind = "on_pod_deleted"
        /\ ~(cluster.deleting /\ trace.pod = 0)
        /\ ~(podDeleting[trace.pod] \/ trace.diag \in RemovalDiags)

\* C17: on diagnosis SPLIT_BRAIN or INVALID every sink that reaches
\* repair_cluster raises PermanentError, and nothing is attempted: no admin
\* call, no finalizer change.
C17_SplitBrainPermanent ==
  (ReachedRepair /\ trace.diag \in {"SPLIT_BRAIN", "INVALID"}) =>
    /\ trace.res = Perm
    /\ Len(trace.ev) = 1 /\ trace.ev[1].op = "publish_status"

\* A sink found two ONLINE members in a split brain and raised PermanentError.
C17_SplitBrainSeen ==
  /\ ReachedRepair /\ trace.diag = "SPLIT_BRAIN" /\ trace.res = Perm
  /\ \A p \in 0 .. (numPods - 1) : gr[p] = "ONLINE"

UncertainDiags ==
  {"ONLINE_UNCERTAIN", "OFFLINE_UNCERTAIN", "NO_QUORUM_UNCERTAIN", "SPLIT_BRAIN_UNCERTAIN"}

\* C18: on a diagnosis tagged UNCERTAIN no sink ends in PermanentError.
C18_UncertainNeverPermanent ==
  (trace.ran /\ trace.diag \in UncertainDiags) => trace.res # Perm

\* C19: on diagnosis NO_QUORUM repair_cluster forces the quorum at the first
\* quorum candidate of the diagnosis: force_quorum_using_partition_of is
\* issued with that candidate's endpoint over a session to that candidate,
\* and the repair issues no other call and changes no finalizer.
C19_ForceQuorumAtCandidate ==
  /\ \A i \in Entries("force_quorum_using_partition_of") :
       /\ trace.diag = "NO_QUORUM"
       /\ trace.ev[i].opt = <<trace.ev[i].pod, Endpoint(trace.ev[i].pod)>>
  /\ \A p \in Pods :
       pc[p] = "locked" =>
         \A diag \in {d \in diagnose_cluster(World) : d.status = "NO_QUORUM"} :
           \A r \in repair_cluster(World, p, diag) :
             /\ diag.candidate \in OnlineMembers(World)
             /\ r.w.fin = fin /\ r.w.gr = gr
             /\ \A i \in 1 .. Len(r.w.ev) :
                  /\ r.w.ev[i].op = "force_quorum_using_partition_of"
                  /\ r.w.ev[i].pod = diag.candidate
                  /\ r.w.ev[i].opt = <<diag.candidate, Endpoint(diag.candidate)>>

\* A sink of one pod forced the quorum at the other pod, the candidate.
C19_ForcedAtOtherPod ==
  /\ ReachedRepair /\ trace.diag = "NO_QUORUM"
  /\ \E i \in Entries("force_quorum_using_partition_of") :
       /\ trace.ev[i].res = "ok" /\ trace.ev[i].pod # trace.pod
       /\ trace.ev[i].opt = <<trace.ev[i].pod, Endpoint(trace.ev[i].pod)>>

\* C20: reboot_cluster_from_complete_outage is issued only on diagnosis
\* OFFLINE, only for an event of pod 0, and at pod 0; on_pod_restarted of a
\* pod of index > 0 on OFFLINE does nothing: no admin call, no finalizer and
\* no membership state of a pod changes.
C20_RebootAtPodZero ==
  /\ \A i \in Entries("reboot_cluster_from_complete_outage") :
       /\ trace.diag = "OFFLINE"
       /\ trace.pod = 0 /\ trace.ev[i].pod = 0
  /\ \A i \in Entries("add_member_finalizer") :
       trace.ev[i].opt = "reboot_cluster" => trace.pod = 0 /\ trace.ev[i].pod = 0
  /\ (Ran("on_pod_restarted", {"OFFLINE"}) /\ trace.pod # 0) =>
       /\ Len(trace.ev) = 1 /\ trace.ev[1].op = "publish_status"
       /\ trace.res # Ok

\* on_pod_restarted of pod 1 found the cluster in a complete outage and left
\* it so.
C20_OtherPodLeftIt ==
  /\ Ran("on_pod_restarted", {"OFFLINE"}) /\ trace.pod # 0
  /\ Len(trace.ev) = 1
  /\ gr[0] = "OFFLINE" /\ gr[trace.pod] = "OFFLINE"

\* C21: a membership transition of the changed pod that is newer than the
\* last probe makes probe_status_if_needed probe and publish again, also when
\* no probe time was recorded yet.
C21_RefreshOnNewerTransition ==
  (/\ refresh.called
   /\ refresh.transition_time # NoTime
   /\ (refresh.probe_time = NoTime \/ refresh.probe_time < refresh.transition_time))
    => refresh.probed

\* C22: the list holds at most one record for a (namespace, name), and a
\* monitor_cluster for a cluster that has a record leaves the list, and so
\* the record with its session, view id, primary id and handler, as it was.
C22_RegisteredOnce ==
  /\ [](\A i, j \in 1 .. Len(clusters) :
          clusters[i].name = clusters[j].name => i = j)
  /\ [][(monitored'.op = "monitor_cluster" /\ monitored'.name \in Names(clusters))
          => clusters' = clusters]_vars

\* monitor_cluster was called with another handler for a cluster whose record
\* holds a session, while the list holds a second cluster.
C22_RegisteredAgain ==
  /\ monitored.op = "monitor_cluster"
  /\ Len(clusters) = 2
  /\ \E i \in 1 .. Len(clusters) :
       /\ clusters[i].name = monitored.name
       /\ clusters[i].handler # monitored.handler
       /\ clusters[i].session # NoSession
       /\ clusters[i].last_primary_id # NoMember

\* C23: when remove_cluster returns, the session the removed record held is
\* closed.
C23_SessionClosedOnRemove ==
  (/\ monitored.op = "remove_cluster" /\ monitored.held # NoSession
   /\ thread.phase # "dead") =>
    \A s \in sessions : s.id # monitored.held

\* C24: ensure_connected attempts to connect only when the record holds no
\* session, and after an attempt only when more than
\* k_connect_retry_interval seconds have passed since that attempt began.
C24_AttemptsThrottled ==
  (monitored.op = "ensure_connected" /\ monitored.attempted) =>
    /\ monitored.held = NoSession
    /\ \/ monitored.prev = NoTime
       \/ now - monitored.prev > k_connect_retry_interval

\* After an attempt that left the record without a session and a tick in
\* which nothing was attempted, the record connects again.
C24_AttemptedAgain ==
  /\ monitored.op = "ensure_connected" /\ monitored.attempted
  /\ monitored.prev # NoTime /\ now - monitored.prev > k_connect_retry_interval

\* C25: while the monitor runs, every open session a MonitoredCluster of the
\* list opened is the one it holds as its current session.
C25_OneLiveSession ==
  thread.phase # "dead" =>
    \A s \in sessions :
      s.owner # Dropped =>
        \E i \in 1 .. Len(clusters) :
          clusters[i].name = s.owner /\ clusters[i].session = s.id

\* ------------------------------------------------- remove_instance, claims
\* The entries of the last sink's trace that are a removal of the sink's pod
\* which ended as `res`
Removals(res) ==
  {i \in Entries("remove_instance") :
     trace.ev[i].pod = trace.pod /\ trace.ev[i].res \in res}

\* The last sink changed the finalizer of its pod
FinalizerTouched ==
  \E i \in 1 .. Len(trace.ev) :
    /\ trace.ev[i].op \in {"add_member_finalizer", "remove_member_finalizer"}
    /\ trace.ev[i].pod = trace.pod

\* C26: when the graceful removal of a deleted pod fails with
\* ER_OPTION_PREVENTS_STATEMENT, on_pod_deleted raises retry-later of delay 5,
\* nothing follows the refused removal (no forced removal, no other call) and
\* the pod's finalizer is left as it was; when a removal of the pod succeeds,
\* the sink returns with the finalizer removed.
C26_ReadOnlyRetriesLater ==
  /\ []((trace.ran /\ trace.kind = "on_pod_deleted" /\ Removals({"prevents"}) # {}) =>
          /\ trace.res = Temp(5)
          /\ \A i \in Removals({"prevents"}) : i = Len(trace.ev)
          /\ Removals({"ok"}) = {}
          /\ ~FinalizerTouched)
  /\ []((trace.ran /\ trace.kind = "on_pod_deleted" /\ Removals({"ok"}) # {}) =>
          /\ trace.res = Ok
          /\ ~fin[trace.pod])
  /\ [][(trace'.ran /\ trace'.kind = "on_pod_deleted"
           /\ \E i \in 1 .. Len(trace'.ev) :
                /\ trace'.ev[i].op = "remove_instance" /\ trace'.ev[i].res = "prevents")
          => fin'[trace'.pod] = fin[trace'.pod]]_vars

\* The graceful removal of a pod that carries the finalizer was refused by a
\* read-only primary, and the pod carries it still
C26_RefusedReadOnly ==
  /\ trace.ran /\ trace.kind = "on_pod_deleted"
  /\ Removals({"prevents"}) # {}
  /\ trace.res = Temp(ReadOnlyDelay)
  /\ podDeleting[trace.pod] /\ fin[trace.pod] /\ completed[trace.pod]
  /\ InMetadata(gr[trace.pod])

\* The last sink was an on_pod_deleted that called remove_instance for its
\* pod: not the destroy path, and the pod is being deleted or the cluster was
\* diagnosed ONLINE or FINALIZING (lines 606-615 of on_pod_deleted)
RemoveInvoked ==
  /\ trace.ran /\ trace.kind = "on_pod_deleted"
  /\ ~(cluster.deleting /\ trace.pod = 0)
  /\ (podDeleting[trace.pod] \/ trace.diag \in OnlineFamily \cup {"FINALIZING"})

\* C27 as the spec states it: every invocation of remove_instance, whatever
\* the outcome of the connection and of the removals, finishes with the
\* pod's member finalizer removed.
C27_FinalizerAlwaysRemoved == RemoveInvoked => ~fin[trace.pod]

\* C27: every remove_instance that returns to on_pod_deleted has removed the
\* pod's member finalizer as its last step: the sink's last change of a
\* finalizer is that removal, and the pod is without finalizer.
C27_FinalizerRemovedOnReturn ==
  (RemoveInvoked /\ trace.res = Ok) =>
    /\ ~fin[trace.pod]
    /\ \E i \in Entries("remove_member_finalizer") :
         /\ trace.ev[i].pod = trace.pod /\ trace.ev[i].opt = "remove_instance"
         /\ \A j \in (i + 1) .. Len(trace.ev) :
              trace.ev[j].op \notin {"add_member_finalizer", "remove_member_finalizer",
                                     "remove_instance"}

\* remove_instance returned after a graceful and a forced removal that both
\* failed while the cluster is being deleted, and the finalizer is removed
C27_RemovedAfterFailures ==
  /\ RemoveInvoked /\ trace.res = Ok
  /\ cluster.deleting
  /\ \E i \in Removals({"error"}) : trace.ev[i].opt = "force"
  /\ Removals({"ok", "metadata_missing"}) = {}
  /\ InMetadata(gr[trace.pod])
  /\ ~fin[trace.pod]

\* C28: while the cluster is being deleted, a remove_instance that was not
\* refused with ER_OPTION_PREVENTS_STATEMENT returns normally with the pod's
\* finalizer removed, whether no peer could be reached (admin-client error or
\* 'could not connect to any cluster member') or a removal failed.
C28_ErrorsSwallowedWhileDeleting ==
  (RemoveInvoked /\ cluster.deleting /\ Removals({"prevents"}) = {}) =>
    /\ trace.res = Ok
    /\ ~fin[trace.pod]

\* ------------------------------------------------- intent before mutation
\* The admin calls that make a pod a member, and the writes of what was
\* observed of a pod
MemberMakingCalls == {"create_cluster", "add_instance", "reboot_cluster_from_complete_outage"}

StatusWrites == {"update_membership_status", "update_member_readiness_gate"}

\* As entry i of the last sink's trace was issued, its pod carried the
\* finalizer the sink had added
FinalizerHeldAt(i) ==
  \E j \in 1 .. (i - 1) :
    /\ trace.ev[j].op = "add_member_finalizer" /\ trace.ev[j].pod = trace.ev[i].pod
    /\ \A k \in (j + 1) .. (i - 1) :
         ~(trace.ev[k].op = "remove_member_finalizer" /\ trace.ev[k].pod = trace.ev[i].pod)

\* The last member-making call for the pod of entry k before k, or 0
LastCallBefore(k) ==
  LET S == {i \in 1 .. (k - 1) :
              trace.ev[i].op \in MemberMakingCalls /\ trace.ev[i].pod = trace.ev[k].pod}
  IN IF S = {} THEN 0 ELSE CHOOSE i \in S : \A j \in S : j <= i

\* C29: as create_cluster, add_instance or reboot_cluster_from_complete_outage
\* is issued for a pod, the pod carries the member finalizer; the pod's
\* membership status and ready gate are written after a call that succeeded
\* and never before the call or after one that failed; an add_instance that
\* failed in the last attempt is raised by the sink.
C29_IntentBeforeMutation ==
  trace.ran =>
    /\ \A i \in 1 .. Len(trace.ev) :
         trace.ev[i].op \in MemberMakingCalls => FinalizerHeldAt(i)
    /\ \A k \in 1 .. Len(trace.ev) :
         trace.ev[k].op \in StatusWrites =>
           /\ LastCallBefore(k) # 0 => trace.ev[LastCallBefore(k)].res = "ok"
           /\ \A i \in (k + 1) .. Len(trace.ev) :
                ~(trace.ev[i].op \in MemberMakingCalls /\ trace.ev[i].pod = trace.ev[k].pod)
    /\ \A i \in Entries("add_instance") :
         (trace.ev[i].res # "ok" /\ i = Len(trace.ev)) => trace.res.kind # "ok"

\* add_instance failed and was issued again for a pod that carried the
\* finalizer; it succeeded, and the pod's status and ready gate were written
C29_JoinedOnRetry ==
  /\ trace.ran
  /\ \E i, j \in Entries("add_instance") :
       /\ i < j /\ trace.ev[i].pod = trace.ev[j].pod
       /\ trace.ev[i].res = "error" /\ trace.ev[j].res = "ok"
       /\ FinalizerHeldAt(i) /\ FinalizerHeldAt(j)
       /\ \E k \in (j + 1) .. Len(trace.ev) :
            /\ trace.ev[k].op = "update_member_readiness_gate"
            /\ trace.ev[k].pod = trace.ev[j].pod
       /\ fin[trace.ev[j].pod] /\ ready[trace.ev[j].pod] /\ info[trace.ev[j].pod].set

\* ------------------------------------------- create on a seed already in GR
\* Entry i of the last sink's trace is `op` for the seed and ended as `res`
SeedEntry(i, op, res) ==
  /\ i \in 1 .. Len(trace.ev)
  /\ trace.ev[i].op = op /\ trace.ev[i].pod = 0 /\ trace.ev[i].res = res

\* The create_cluster calls of the last sink that found the seed in a group
AlreadyInGr == {i \in Entries("create_cluster") : trace.ev[i].res = "already_in_gr"}

\* The create_cluster call entry k (the return of post_create_actions)
\* belongs to, when the call was issued again after one of AlreadyInGr
RetriedCreate(k) ==
  {j \in Entries("create_cluster") :
     /\ j < k /\ trace.ev[j].res = "ok"
     /\ \A m \in (j + 1) .. (k - 1) : trace.ev[m].op # "create_cluster"
     /\ \E i \in AlreadyInGr : i < j}

\* After a create_cluster refused for a seed already in a group, the seed's
\* finalizer is removed and GR is stopped on it; a failed stop is retry-later
\* of delay 3; after the stop the sink raises or issues create_cluster again,
\* and that call does not find the seed in a group.
StoppedAndRetried ==
  \A i \in AlreadyInGr :
    /\ SeedEntry(i + 1, "remove_member_finalizer", "ok")
    /\ \/ SeedEntry(i + 2, "STOP GROUP_REPLICATION", "error")
          /\ i + 2 = Len(trace.ev) /\ trace.res = Temp(3)
       \/ SeedEntry(i + 2, "STOP GROUP_REPLICATION", "ok")
          /\ IF \E j \in Entries("create_cluster") : j > i
             THEN \E j \in Entries("create_cluster") :
                    /\ j > i + 2 /\ trace.ev[j].res # "already_in_gr"
                    /\ \A m \in (i + 1) .. (j - 1) : trace.ev[m].op # "create_cluster"
             ELSE trace.res.kind # "ok"

\* The router and backup accounts were set up between entries j and k
AccountsSetUp(j, k) ==
  \E a, b \in (j + 1) .. (k - 1) :
    /\ a < b
    /\ SeedEntry(a, "setup_router_account", "ok")
    /\ SeedEntry(b, "setup_backup_account", "ok")

\* The router deployment was sized to the declared count just before entry k
SizedBefore(k) ==
  /\ trace.ev[k - 1].op = "update_size" /\ trace.ev[k - 1].res = "ok"
  /\ trace.ev[k - 1].opt = trace.ev[k].opt

C31_RecoveryFollowsCreation ==
  trace.ran =>
    /\ \A i \in Entries("create_cluster") :
         /\ cluster.initDB \in {"none", "clone"}
         /\ trace.ev[i].opt = "gtidSetIsComplete=True" <=> cluster.initDB = "none"
         /\ trace.ev[i].opt = "gtidSetIsComplete=False" <=> cluster.initDB = "clone"
         /\ cluster.incrementalRecoveryAllowed = "True" <=> cluster.initDB = "none"
         /\ cluster.incrementalRecoveryAllowed = "False" <=> cluster.initDB = "clone"
    /\ \A i \in Entries("add_instance") :
         /\ trace.ev[i].opt = "incremental" <=> cluster.incrementalRecoveryAllowed = "True"
         /\ trace.ev[i].opt = "clone" <=> cluster.incrementalRecoveryAllowed # "True"
         /\ trace.ev[i].opt = "incremental" <=> cluster.initDB = "none"

\* A pod joined by clone a cluster that was created from a clone donor
C31_JoinedByClone ==
  /\ trace.ran
  /\ \E i \in Entries("add_instance") :
       /\ trace.ev[i].res = "ok" /\ trace.ev[i].opt = "clone"
       /\ gr[trace.ev[i].pod] = "ONLINE"
  /\ cluster.initDB = "clone" /\ cluster.incrementalRecoveryAllowed = "False"

\* ------------------------------------------------ the monitor, its notices
\* The record of the cluster the last step of the monitor was about
Monitored == clusters[CHOOSE i \in 1 .. Len(clusters) : clusters[i].name = monitored.name]

\* C32: an error raised while handle_notice fetches or processes a notice
\* (the probe statement, the fetch, query_members in on_view_change, the
\* registered handler) does not leave handle_notice: the session is closed
\* and cleared and the monitor thread goes on.
C32_NoticeErrorsCloseSession ==
  (monitored.op = "handle_notice" /\ monitored.erred) =>
    /\ ~monitored.raised
    /\ thread.phase # "dead"
    /\ Monitored.session = NoSession
    /\ \A x \in sessions : x.id # monitored.held

\* The on_view_change calls of the last step of the monitor that ran to
\* their end: all of them, but the last when its handler raised
Completed ==
  {k \in 1 .. Len(monitored.handled) : ~(monitored.raised /\ k = Len(monitored.handled))}

\* The member the recorded primary id names is in the list, not as PRIMARY
PrimaryDemoted(e) ==
  \E i \in 1 .. Len(e.members) :
    e.members[i].member_id = e.last_primary_id /\ e.members[i].role # "PRIMARY"

\* The member_id of the PRIMARY of the list, or none
PrimaryOf(members) ==
  IF \E i \in 1 .. Len(members) : members[i].role = "PRIMARY"
  THEN members[CHOOSE i \in 1 .. Len(members) : members[i].role = "PRIMARY"].member_id
  ELSE NoMember

\* C33: on_view_change closes and clears the session exactly when the
\* recorded primary member_id is in the member list with a role other than
\* PRIMARY or the session is flagged target_not_primary; otherwise the
\* session stays open and the recorded primary id becomes the member_id of
\* the PRIMARY of the list. The handler is called while the session is open.
C33_ReconnectIffPrimaryLost ==
  monitored.op \in {"ensure_connected", "handle_notice"} =>
    \A k \in Completed :
      /\ monitored.handled[k].live
      /\ monitored.handled[k].closed <=>
           (PrimaryDemoted(monitored.handled[k]) \/ monitored.handled[k].target_not_primary)
      /\ monitored.handled[k].closed =>
           /\ k = Len(monitored.handled)
           /\ Monitored.session = NoSession
           /\ monitored.op = "handle_notice" => \A x \in sessions : x.id # monitored.held
      /\ (~monitored.handled[k].closed /\ k = Len(monitored.handled)) =>
           /\ Monitored.last_primary_id = PrimaryOf(monitored.handled[k].members)
           /\ ~monitored.erred =>
                /\ Monitored.session # NoSession
                /\ \E x \in sessions : x.id = Monitored.session

\* A notice showed the recorded primary as SECONDARY to a session on the
\* PRIMARY, and the session was closed after the handler was called
C33_ClosedOnDemotion ==
  /\ monitored.op = "handle_notice" /\ ~monitored.raised
  /\ \E k \in Completed :
       /\ PrimaryDemoted(monitored.handled[k])
       /\ ~monitored.handled[k].target_not_primary
       /\ monitored.handled[k].live /\ monitored.handled[k].closed
  /\ Monitored.session = NoSession
  /\ \A x \in sessions : x.id # monitored.held

\* C34 as the spec states it: handle_notice calls on_view_change once for
\* every notice pending as it is invoked, in the order received, and skips
\* none (no error being raised).
C34_AllPendingHandled ==
  (monitored.op = "handle_notice" /\ ~monitored.erred) =>
    ViewsOf(monitored.handled) = monitored.pending

\* C34: handle_notice calls the handler for the pending notices in the
\* order received, each once, and stops before the last of them only when
\* the session was closed and cleared (by on_view_change or by an error) or
\* the handler raised; with no error and the session open, every pending
\* notice was handled.
C34_DrainedWhileConnected ==
  monitored.op = "handle_notice" =>
    /\ Len(monitored.handled) <= Len(monitored.pending)
    /\ ViewsOf(monitored.handled) = SubSeq(monitored.pending, 1, Len(monitored.handled))
    /\ Len(monitored.handled) < Len(monitored.pending) =>
         \/ monitored.raised
         \/ /\ Monitored.session = NoSession
            /\ \A x \in sessions : x.id # monitored.held
    /\ (Monitored.session # NoSession /\ ~monitored.raised) =>
         /\ ViewsOf(monitored.handled) = monitored.pending
         /\ monitored.tail = "none"

\* Two notices of different views were pending; both were handled, in their
\* order, and the session is still open
C34_TwoNoticesHandled ==
  /\ monitored.op = "handle_notice" /\ ~monitored.erred
  /\ monitored.pending = <<2, 1>>
  /\ ViewsOf(monitored.handled) = <<2, 1>>
  /\ monitored.handled[1].changed /\ monitored.handled[2].changed
  /\ Monitored.session = monitored.held
  /\ Monitored.last_view_id = 1

\* ------------------------------------------------------ the monitor, stop
\* C35: after stop() the loop of run() terminates: the thread leaves run(),
\* and it begins no iteration once the flag is set, so it exits as the
\* iteration it is in ends.
C35_StopTerminatesLoop ==
  /\ stopped ~> thread.phase \in {"exited", "dead"}
  /\ [][(stopped /\ monitored'.op \in {"poll_sessions", "loop"})
          => thread'.phase \in {"handle", "exited"}]_vars
  /\ [](thread.phase = "exited" => stopped)

\* run() has returned after stop(), the cluster still registered and its
\* session open
C35_ExitedAfterStop ==
  /\ stopped /\ thread.phase = "exited"
  /\ monitored.op \in {"poll_sessions", "loop"}
  /\ Len(clusters) = 1 /\ clusters[1].session # NoSession

\* --------------------------------------------- the monitor, a failing cluster
\* C36: as long as stop() has not been called run() keeps ticking: no
\* failure while connecting to a cluster, configuring its session,
\* refreshing it after the connect or handling its notices ends the loop.
C36_RunsUntilStopped == ~stopped => thread.phase \notin {"dead", "exited"}

\* ------------------------------------------ the monitor, no PRIMARY reachable
\* An attempt of ensure_connected that returned while no member that
\* answered was the PRIMARY
OnlySecondaries ==
  /\ monitored.op = "ensure_connected" /\ monitored.attempted
  /\ ~monitored.primary /\ ~monitored.raised

\* C38: while only members that are not the PRIMARY are reachable the record
\* holds no session from one tick to the next: the session ensure_connected
\* stored with target_not_primary set is closed and cleared by the forced
\* on_view_change, which calls the handler once; ensure_connected returns
\* no session, nothing is added to the sessions that are polled, no
\* handle_notice runs for a record without a session, and the next attempt
\* waits for the retry interval.
C38_NoSessionWithoutPrimary ==
  /\ [](OnlySecondaries =>
          /\ Monitored.session = NoSession
          /\ Monitored.last_connect_attempt = now
          /\ ~Due(Monitored, now)
          /\ Len(monitored.handled) <= 1
          /\ monitored.up = {} => monitored.handled = <<>>
          /\ \A i \in 1 .. Len(monitored.handled) :
               /\ monitored.handled[i].view = NoView
               /\ monitored.handled[i].live
               /\ monitored.handled[i].target_not_primary
               /\ monitored.handled[i].closed
               /\ Monitored.target_not_primary)
  /\ [][OnlySecondaries' => polled' = polled]_vars
  /\ [](monitored.op = "handle_notice" => monitored.held # NoSession)

\* A second attempt that reached a secondary only: the handler was called,
\* the session closed, and the record is left without one
C38_SecondaryDropped ==
  /\ OnlySecondaries /\ monitored.up # {} /\ monitored.prev # NoTime
  /\ Len(monitored.handled) = 1 /\ monitored.handled[1].closed
  /\ Monitored.session = NoSession /\ Monitored.target_not_primary

\* ------------------------------------------------- create, the create time
\* The step is on_pod_created for pod 0 on diagnosis INITIALIZING
CreateRequested ==
  /\ trace'.ran /\ trace'.kind = "on_pod_created"
  /\ trace'.diag = "INITIALIZING" /\ trace'.pod = 0

\* The step went through create_cluster to its end: the cluster is created
CreatedNow ==
  /\ trace'.ran
  /\ \E i \in 1 .. Len(trace'.ev) : trace'.ev[i].op = "set_create_time"

\* C37: create_cluster is never issued for a cluster whose create time is
\* recorded: on_pod_created for pod 0 on diagnosis INITIALIZING then raises
\* PermanentError and does nothing but publish the status it probed: no
\* finalizer is added, no admin call made, no member touched. The create
\* time is never cleared, so a cluster is created at most once.
C37_CreatedAtMostOnce ==
  /\ [][(CreateRequested /\ cluster.createTime) =>
          /\ trace'.res = Perm
          /\ \A i \in 1 .. Len(trace'.ev) : trace'.ev[i].op = "publish_status"
          /\ ~HasAdminCall(trace'.ev)
          /\ fin' = fin /\ gr' = gr /\ info' = info]_vars
  /\ [][(trace'.ran /\ \E i \in 1 .. Len(trace'.ev) :
                         trace'.ev[i].op \in {"create_cluster", "add_member_finalizer"}
                         /\ trace'.kind = "on_pod_created"
                         /\ trace'.diag = "INITIALIZING")
          => ~cluster.createTime]_vars
  /\ [][CreatedNow => ~cluster.createTime /\ cluster'.createTime]_vars
  /\ [][cluster.createTime => cluster'.createTime]_vars

\* on_pod_created came for pod 0 of a cluster that was created before and
\* has lost its members, and refused to create it again
C37_CreateRefused ==
  /\ Ran("on_pod_created", {"INITIALIZING"}) /\ trace.pod = 0
  /\ trace.res = Perm /\ cluster.createTime
  /\ Entries("create_cluster") = {} /\ ~fin[0]
====
